---------------------------- MODULE Spec2Model ----------------------------
(***************************************************************************)
(* boxcars, src/bin/clean.rs: the replay processor that turns the actor    *)
(* spawn / update / delete events of each network frame into per-frame     *)
(* ball, player and metadata records.                                      *)
(*                                                                         *)
(* One behaviour is one run of ReplayProcessor::get_data over a bounded    *)
(* replay.  The frames of the replay are drawn from FrameCatalogue; the    *)
(* events of a frame are applied one per step, in the order in which       *)
(* ActorStateModeler::process_frame iterates over them, followed by one    *)
(* step per call of the loop body of get_data.                             *)
(*                                                                         *)
(* Conventions.  A HashMap is a function whose DOMAIN is its key set.  An  *)
(* Option is the empty sequence (None) or a one-element sequence (Some).   *)
(* An Attribute is a record [tag, v]; the payload v is an integer (an      *)
(* actor id, a player id, a byte, or the identity of a rigid-body value).  *)
(* An f32 boost amount is the integer numerator of a fraction with         *)
(* denominator FloatDen, so that delta * 80 / 0.93 is exact.               *)
(***************************************************************************)
EXTENDS Integers, Sequences, FiniteSets, TLC

\* ------------------------------------------------------------------------
\* Names of object types and attributes (clean.rs:4-28)

BALL_TYPES ==
  << "Archetypes.Ball.Ball_Default",
     "Archetypes.Ball.Ball_Basketball",
     "Archetypes.Ball.Ball_Puck",
     "Archetypes.Ball.CubeBall",
     "Archetypes.Ball.Ball_Breakout" >>

BOOST_TYPE == "Archetypes.CarComponents.CarComponent_Boost"
JUMP_TYPE == "Archetypes.CarComponents.CarComponent_Jump"
DOUBLE_JUMP_TYPE == "Archetypes.CarComponents.CarComponent_DoubleJump"
DODGE_TYPE == "Archetypes.CarComponents.CarComponent_Dodge"
CAR_TYPE == "Archetypes.Car.Car_Default"
PLAYER_REPLICATION_KEY == "Engine.Pawn:PlayerReplicationInfo"
PLAYER_TYPE == "TAGame.Default__PRI_TA"
TEAM_TYPE == "Engine.PlayerReplicationInfo:Team"
GAME_TYPE == "Archetypes.GameEvent.GameEvent_Soccar"

BOOST_AMOUNT_KEY == "TAGame.CarComponent_Boost_TA:ReplicatedBoostAmount"
LAST_BOOST_AMOUNT_KEY == "TAGame.CarComponent_Boost_TA:ReplicatedBoostAmount.Last"
COMPONENT_ACTIVE_KEY == "TAGame.CarComponent_TA:ReplicatedActive"
RIGID_BODY_STATE_KEY == "TAGame.RBActor_TA:ReplicatedRBState"
UNIQUE_ID_KEY == "Engine.PlayerReplicationInfo:UniqueId"
VEHICLE_KEY == "TAGame.CarComponent_TA:Vehicle"
SECONDS_REMAINING_KEY == "TAGame.GameEvent_Soccar_TA:SecondsRemaining"

\* BOOST_USED_PER_SECOND = 80.0 / 0.93 = BoostUsedNum / FloatDen per second.
BoostUsedNum == 8000
FloatDen == 93

\* u8::MAX, the range of u8::try_from in get_metadata_frame.
U8Max == 255

\* Widths and limits of the primitive decoder (network/models.rs:8, 17, 55)
I32Max == 2147483647
I8Bits == 7
ByteBits == 8
SizeSelectorBits == 4
MaxSizeBitsOld == 20
MaxSizeBitsNew == 22
NewVectorVersion == 7

\* read_bits_max(5, 20) of network.rs:16
LegacySelectorBits == 5
LegacyMaxSizeBits == 20

\* The network version of the decoder tests (network/models.rs:297).
OldNetVersion == 5

\* ------------------------------------------------------------------------
\* Bounds of the model

\* Number of frames of the replay.
MaxFrames == 4

\* ------------------------------------------------------------------------
\* Option, HashMap and Vec helpers

None == << >>
Some(x) == << x >>
IsSome(o) == Len(o) = 1
Unwrap(o) == o[1]

EmptyMap == [k \in {} |-> 0]
Insert(m, k, v) == [x \in (DOMAIN m) \cup {k} |-> IF x = k THEN v ELSE m[x]]
Remove(m, k) == [x \in (DOMAIN m) \ {k} |-> m[x]]
Contains(s, x) == \E i \in 1..Len(s) : s[i] = x
Retain(s, x) == SelectSeq(s, LAMBDA y : y # x)

\* ------------------------------------------------------------------------
\* The object table of the replay (replay.objects) and the two lookup maps
\* ReplayProcessor::new builds from it: ObjectId(i) names Objects[i + 1].

Objects ==
  << "Archetypes.Ball.Ball_Default",
     "Archetypes.Ball.Ball_Basketball",
     "Archetypes.Ball.Ball_Puck",
     "Archetypes.Ball.CubeBall",
     "Archetypes.Ball.Ball_Breakout",
     "Archetypes.CarComponents.CarComponent_Boost",
     "Archetypes.CarComponents.CarComponent_Jump",
     "Archetypes.CarComponents.CarComponent_DoubleJump",
     "Archetypes.CarComponents.CarComponent_Dodge",
     "Archetypes.Car.Car_Default",
     "Engine.Pawn:PlayerReplicationInfo",
     "TAGame.Default__PRI_TA",
     "Engine.PlayerReplicationInfo:Team",
     "Archetypes.GameEvent.GameEvent_Soccar",
     "TAGame.CarComponent_Boost_TA:ReplicatedBoostAmount",
     "TAGame.CarComponent_TA:ReplicatedActive",
     "TAGame.RBActor_TA:ReplicatedRBState",
     "Engine.PlayerReplicationInfo:UniqueId",
     "TAGame.CarComponent_TA:Vehicle",
     "TAGame.GameEvent_Soccar_TA:SecondsRemaining" >>

ObjectIds == 0..(Len(Objects) - 1)

\* name_to_object_id.get(name): None when the table does not hold the name;
\* a later entry of the table overwrites an earlier one of the same name.
name_to_object_id(name) ==
  LET hits == {i \in 1..Len(Objects) : Objects[i] = name}
  IN  IF hits = {} THEN None
      ELSE Some((CHOOSE i \in hits : \A j \in hits : j <= i) - 1)

\* The object id of a name the table holds.
Oid(name) == Unwrap(name_to_object_id(name))

\* ------------------------------------------------------------------------
\* Attribute values (boxcars::Attribute, the variants clean.rs reads)

Attr(tag, v) == [tag |-> tag, v |-> v]
Attribute_Int(v) == Attr("Int", v)
Attribute_Byte(v) == Attr("Byte", v)
Attribute_Float(v) == Attr("Float", v)
Attribute_RigidBody(v) == Attr("RigidBody", v)
Attribute_ActiveActor(v) == Attr("ActiveActor", v)
Attribute_UniqueId(v) == Attr("UniqueId", v)

\* Result values
Ok(v) == [ok |-> TRUE, v |-> v, err |-> ""]
Err(e) == [ok |-> FALSE, v |-> 0, err |-> e]


\* ------------------------------------------------------------------------
\* ActorState (clean.rs:34-59)

\* ActorState::new
ActorState_new(new_actor) ==
  [ attributes |-> EmptyMap,
    derived_attributes |-> EmptyMap,
    object_id |-> new_actor.object_id,
    name_id |-> new_actor.name_id ]

\* ActorState::update_attribute with a value already stored left in place.
ActorState_update_attribute_keeps_first(state, update) ==
  [ state |-> IF update.object_id \in DOMAIN state.attributes
              THEN state
              ELSE [state EXCEPT !.attributes =
                      Insert(state.attributes, update.object_id, update.attribute)],
    previous |-> IF update.object_id \in DOMAIN state.attributes
                 THEN Some(state.attributes[update.object_id])
                 ELSE None ]

\* ActorState::update_attribute: HashMap::insert, which returns the value
\* the key held before.
ActorState_update_attribute(state, update) ==
  [ state |-> [state EXCEPT !.attributes =
                 Insert(state.attributes, update.object_id, update.attribute)],
    previous |-> IF update.object_id \in DOMAIN state.attributes
                 THEN Some(state.attributes[update.object_id])
                 ELSE None ]

\* ------------------------------------------------------------------------
\* ActorStateModeler (clean.rs:61-147).  self is the record
\* [actor_states, actor_ids_by_type]; an operation returns the Result and
\* the modeler as the call leaves it.

ActorStateModeler_new ==
  [ actor_states |-> EmptyMap, actor_ids_by_type |-> EmptyMap ]

\* actor_ids_by_type.entry(object_id).or_insert_with(Vec::new)
entry_or_insert(by_type, object_id) ==
  IF object_id \in DOMAIN by_type THEN by_type[object_id] ELSE << >>

\* new_actor with a spawn under another object type taking the id over
\* instead of returning the Err.
new_actor_takes_over(self, n) ==
  IF n.actor_id \in DOMAIN self.actor_states
     /\ self.actor_states[n.actor_id].object_id = n.object_id
  THEN [res |-> Ok(0), self |-> self]
  ELSE [ res |-> Ok(0),
         self |->
           [ actor_states |->
               Insert(self.actor_states, n.actor_id, ActorState_new(n)),
             actor_ids_by_type |->
               Insert(self.actor_ids_by_type, n.object_id,
                      Append(entry_or_insert(self.actor_ids_by_type, n.object_id),
                             n.actor_id)) ] ]

\* new_actor with the entry of a live actor of the same type replaced by a
\* fresh state.
new_actor_resets_state(self, n) ==
  IF n.actor_id \in DOMAIN self.actor_states
  THEN IF self.actor_states[n.actor_id].object_id # n.object_id
       THEN [res |-> Err("Conflict"), self |-> self]
       ELSE [res |-> Ok(0),
             self |-> [self EXCEPT !.actor_states =
                         Insert(self.actor_states, n.actor_id, ActorState_new(n))]]
  ELSE [ res |-> Ok(0),
         self |->
           [ actor_states |->
               Insert(self.actor_states, n.actor_id, ActorState_new(n)),
             actor_ids_by_type |->
               Insert(self.actor_ids_by_type, n.object_id,
                      Append(entry_or_insert(self.actor_ids_by_type, n.object_id),
                             n.actor_id)) ] ]

new_actor(self, n) ==
  IF n.actor_id \in DOMAIN self.actor_states
  THEN IF self.actor_states[n.actor_id].object_id # n.object_id
       THEN [res |-> Err("Conflict"), self |-> self]
       ELSE [res |-> Ok(0), self |-> self]
  ELSE [ res |-> Ok(0),
         self |->
           [ actor_states |->
               Insert(self.actor_states, n.actor_id, ActorState_new(n)),
             actor_ids_by_type |->
               Insert(self.actor_ids_by_type, n.object_id,
                      Append(entry_or_insert(self.actor_ids_by_type, n.object_id),
                             n.actor_id)) ] ]

\* update_attribute with an update of an unknown actor dropped silently.
update_attribute_skips_unknown(self, u) ==
  IF u.actor_id \in DOMAIN self.actor_states
  THEN LET updated(r) ==
             [ res |-> Ok(r.previous),
               self |-> [self EXCEPT !.actor_states =
                           Insert(self.actor_states, u.actor_id, r.state)] ]
       IN  updated(ActorState_update_attribute(self.actor_states[u.actor_id], u))
  ELSE [res |-> Ok(None), self |-> self]

update_attribute(self, u) ==
  IF u.actor_id \in DOMAIN self.actor_states
  THEN LET updated(r) ==
             [ res |-> Ok(r.previous),
               self |-> [self EXCEPT !.actor_states =
                           Insert(self.actor_states, u.actor_id, r.state)] ]
       IN  updated(ActorState_update_attribute(self.actor_states[u.actor_id], u))
  ELSE [res |-> Err("NotFound"), self |-> self]

\* delete_actor with the entry of the state map left in place.
delete_actor_keeps_state(self, actor_id) ==
  IF actor_id \in DOMAIN self.actor_states
  THEN [ res |-> Ok(self.actor_states[actor_id]),
         self |->
           [self EXCEPT !.actor_ids_by_type =
              Insert(self.actor_ids_by_type,
                     self.actor_states[actor_id].object_id,
                     Retain(entry_or_insert(self.actor_ids_by_type,
                                            self.actor_states[actor_id].object_id),
                            actor_id))] ]
  ELSE [res |-> Err("NotFound"), self |-> self]

\* delete_actor without the retain on the type index.
delete_actor_keeps_index(self, actor_id) ==
  IF actor_id \in DOMAIN self.actor_states
  THEN [ res |-> Ok(self.actor_states[actor_id]),
         self |-> [self EXCEPT !.actor_states =
                     Remove(self.actor_states, actor_id)] ]
  ELSE [res |-> Err("NotFound"), self |-> self]

delete_actor(self, actor_id) ==
  IF actor_id \in DOMAIN self.actor_states
  THEN LET removed(state) ==
             [ res |-> Ok(state),
               self |->
                 [ actor_states |-> Remove(self.actor_states, actor_id),
                   actor_ids_by_type |->
                     Insert(self.actor_ids_by_type, state.object_id,
                            Retain(entry_or_insert(self.actor_ids_by_type,
                                                   state.object_id),
                                   actor_id)) ] ]
       IN  removed(self.actor_states[actor_id])
  ELSE [res |-> Err("NotFound"), self |-> self]

\* ------------------------------------------------------------------------
\* ReplayProcessor lookups (clean.rs:296-352).  S is the ActorStateModeler.
\* A value that the code binds with let and reads more than once is passed
\* to a local operator, so that it is written (and evaluated) once.

\* Option::ok_or
ok_or(o, e) == IF IsSome(o) THEN Ok(Unwrap(o)) ELSE Err(e)

get_object_id_for_key(name) == ok_or(name_to_object_id(name), "UnknownObject")

get_actor_ids_by_object_id(S, object_id) ==
  IF object_id \in DOMAIN S.actor_ids_by_type
  THEN S.actor_ids_by_type[object_id]
  ELSE << >>

get_actor_ids_by_type(S, name) ==
  LET map(k) == IF k.ok THEN Ok(get_actor_ids_by_object_id(S, k.v))
                ELSE Err(k.err)
  IN  map(get_object_id_for_key(name))

\* attribute_match!: the payload when the value is of the variant asked for.
attribute_match(value, tag) ==
  IF value.tag = tag THEN Ok(value.v) ELSE Err("WrongAttributeType")

\* Result::and_then(|found| attribute_match!(found, tag, ..))
and_then_match(found, tag) ==
  IF found.ok THEN attribute_match(found.v, tag) ELSE Err(found.err)

get_attribute(map, property) ==
  LET lookup(k) ==
        IF ~IsSome(k) THEN Err("UnknownObject")
        ELSE IF Unwrap(k) \in DOMAIN map THEN Ok(map[Unwrap(k)])
        ELSE Err("MissingAttribute")
  IN  lookup(name_to_object_id(property))

\* get_attribute!
get_attribute_matching(map, property, tag) ==
  and_then_match(get_attribute(map, property), tag)

get_actor_state(S, actor_id) ==
  IF actor_id \in DOMAIN S.actor_states
  THEN Ok(S.actor_states[actor_id].attributes)
  ELSE Err("NotFound")

get_actor_attribute(S, actor_id, property) ==
  LET of(st) == IF st.ok THEN get_attribute(st.v, property) ELSE Err(st.err)
  IN  of(get_actor_state(S, actor_id))

\* get_actor_attribute_matching!
get_actor_attribute_matching(S, actor_id, property, tag) ==
  and_then_match(get_actor_attribute(S, actor_id, property), tag)

\* get_derived_attribute!
get_derived_attribute(map, key, tag) ==
  IF key \in DOMAIN map THEN attribute_match(map[key], tag)
  ELSE Err("MissingAttribute")

\* ------------------------------------------------------------------------
\* Relationship tracker (clean.rs:392-455).  L is the record of the six
\* relationship maps of the ReplayProcessor.

LinkMaps_new ==
  [ player_actor_to_car_actor |-> EmptyMap,
    player_to_actor_id |-> EmptyMap,
    car_actor_to_boost_actor |-> EmptyMap,
    car_actor_to_dodge_actor |-> EmptyMap,
    car_actor_to_jump_actor |-> EmptyMap,
    car_actor_to_double_jump_actor |-> EmptyMap ]

\* The six instantiations of maintain_actor_link!, in the order of the
\* loop body: the map, the source object type, the link attribute and the
\* variant it must hold.  get_key returns the payload of the value.
Links ==
  << [map |-> "player_actor_to_car_actor", actor_type |-> CAR_TYPE,
      attr |-> PLAYER_REPLICATION_KEY, tag |-> "ActiveActor"],
     [map |-> "player_to_actor_id", actor_type |-> PLAYER_TYPE,
      attr |-> UNIQUE_ID_KEY, tag |-> "UniqueId"],
     [map |-> "car_actor_to_boost_actor", actor_type |-> BOOST_TYPE,
      attr |-> VEHICLE_KEY, tag |-> "ActiveActor"],
     [map |-> "car_actor_to_dodge_actor", actor_type |-> DODGE_TYPE,
      attr |-> VEHICLE_KEY, tag |-> "ActiveActor"],
     [map |-> "car_actor_to_jump_actor", actor_type |-> JUMP_TYPE,
      attr |-> VEHICLE_KEY, tag |-> "ActiveActor"],
     [map |-> "car_actor_to_double_jump_actor", actor_type |-> DOUBLE_JUMP_TYPE,
      attr |-> VEHICLE_KEY, tag |-> "ActiveActor"] >>

\* The insert with key and value exchanged.
link_insert_reversed(map, value, update) == Insert(map, update.actor_id, value)

\* $map.insert($get_key(value), update.actor_id)
link_insert(map, value, update) == Insert(map, value, update.actor_id)

\* maintain_actor_link! without the look at the type of the updated actor.
maintain_actor_link_any_type(S, map, update, link) ==
  LET insert(value) ==
        IF ~value.ok THEN Err(value.err)
        ELSE Ok(link_insert(map, value.v, update))
      of_attr(k) ==
        IF ~k.ok THEN Err(k.err)
        ELSE IF update.object_id # k.v THEN Ok(map)
        ELSE insert(get_actor_attribute_matching(S, update.actor_id,
                                                 link.attr, link.tag))
  IN  of_attr(get_object_id_for_key(link.attr))

\* One expansion of maintain_actor_link! for one update: Ok(the map) or the
\* error the ? operators return.
maintain_actor_link(S, map, update, link) ==
  LET insert(value) ==
        IF ~value.ok THEN Err(value.err)
        ELSE Ok(link_insert(map, value.v, update))
      of_type(ids) ==
        IF ~ids.ok THEN Err(ids.err)
        ELSE IF ~Contains(ids.v, update.actor_id) THEN Ok(map)
        ELSE insert(get_actor_attribute_matching(S, update.actor_id,
                                                 link.attr, link.tag))
      of_attr(k) ==
        IF ~k.ok THEN Err(k.err)
        ELSE IF update.object_id # k.v THEN Ok(map)
        ELSE of_type(get_actor_ids_by_type(S, link.actor_type))
  IN  of_attr(get_object_id_for_key(link.attr))

\* The loop over frame.updated_actors: update i, expansion j.
RECURSIVE maintain_links(_, _, _, _, _)
maintain_links(S, L, updates, i, j) ==
  LET step(r) ==
        IF r.ok
        THEN maintain_links(S, [L EXCEPT ![Links[j].map] = r.v],
                            updates, i, j + 1)
        ELSE [res |-> Err(r.err), L |-> L]
  IN  IF i > Len(updates) THEN [res |-> Ok(0), L |-> L]
      ELSE IF j > Len(Links) THEN maintain_links(S, L, updates, i + 1, 1)
      ELSE step(maintain_actor_link(S, L[Links[j].map], updates[i], Links[j]))

\* The loop over frame.deleted_actors: player_actor_to_car_actor.remove.
sweep_deleted(L, deleted_actors) ==
  [L EXCEPT !.player_actor_to_car_actor =
     [x \in (DOMAIN @) \ {deleted_actors[i] : i \in 1..Len(deleted_actors)}
        |-> @[x]]]

update_player_to_car_mappings(S, L, frame) ==
  LET sweep(r) ==
        IF r.res.ok
        THEN [res |-> Ok(0), L |-> sweep_deleted(r.L, frame.deleted_actors)]
        ELSE r
  IN  sweep(maintain_links(S, L, frame.updated_actors, 1, 1))

\* ------------------------------------------------------------------------
\* Ball tracking (clean.rs:354-376)

\* iter_actors_by_type(name): None when the table does not hold the name.
iter_actors_by_type(S, name) ==
  LET map(k) == IF IsSome(k) THEN Some(get_actor_ids_by_object_id(S, Unwrap(k)))
                ELSE None
  IN  map(name_to_object_id(name))

\* The first actor id of the first ball type, in the order of BALL_TYPES,
\* that has a live actor.
RECURSIVE find_ball_from(_, _)
find_ball_from(S, t) ==
  LET first(ids) ==
        IF IsSome(ids) /\ Len(Unwrap(ids)) > 0
        THEN Some(Unwrap(ids)[1])
        ELSE find_ball_from(S, t + 1)
  IN  IF t > Len(BALL_TYPES) THEN None
      ELSE first(iter_actors_by_type(S, BALL_TYPES[t]))

find_ball_actor(S) == find_ball_from(S, 1)

\* The Some branch of update_ball_id without the look at the delete list.
ball_id_kept(ball_actor_id, frame) == ball_actor_id

\* The branch of update_ball_id taken when the slot holds an actor id.
ball_id_when_some(ball_actor_id, frame) ==
  IF Contains(frame.deleted_actors, Unwrap(ball_actor_id))
  THEN None
  ELSE ball_actor_id

\* update_ball_id: the new value of the slot (the call always returns Ok).
\* The recursive call runs with the slot just filled.
update_ball_id(S, ball_actor_id, frame) ==
  LET acquired(found) ==
        IF IsSome(found) THEN ball_id_when_some(found, frame) ELSE None
  IN  IF IsSome(ball_actor_id)
      THEN ball_id_when_some(ball_actor_id, frame)
      ELSE acquired(find_ball_actor(S))

\* ------------------------------------------------------------------------
\* Boost (clean.rs:457-545)

unwrap_or(r, default) == IF r.ok THEN r.v ELSE default

\* The derived last sample, or the raw amount when there is none yet.
last_boost_amount_of(actor_state, amount_value) ==
  unwrap_or(
    attribute_match(
      IF LAST_BOOST_AMOUNT_KEY \in DOMAIN actor_state.derived_attributes
      THEN actor_state.derived_attributes[LAST_BOOST_AMOUNT_KEY]
      ELSE Attribute_Byte(amount_value),
      "Byte"),
    0)

get_current_boost_values(actor_state) ==
  LET values(amount_value, active_value, derived_value) ==
        [ amount_value |-> amount_value,
          last_boost_amount |-> last_boost_amount_of(actor_state, amount_value),
          active_value |-> active_value,
          derived_value |-> derived_value,
          is_active |-> active_value % 2 = 1 ]
  IN  values(
        unwrap_or(get_attribute_matching(actor_state.attributes,
                                         BOOST_AMOUNT_KEY, "Byte"), 0),
        unwrap_or(get_attribute_matching(actor_state.attributes,
                                         COMPONENT_ACTIVE_KEY, "Byte"), 0),
        unwrap_or(get_derived_attribute(actor_state.derived_attributes,
                                        BOOST_AMOUNT_KEY, "Float"), 0))

\* u8 -> f32
f32_from_u8(b) == b * FloatDen

\* frame.delta * BOOST_USED_PER_SECOND, delta in whole seconds
boost_used(delta) == delta * BoostUsedNum

f32_max(a, b) == IF a >= b THEN a ELSE b

\* The derived amount carried on whatever the raw sample is.
boost_start_ignores_sample(c) == c.derived_value

\* The value current_value starts from and what an active component loses.
boost_start(c) ==
  IF c.amount_value = c.last_boost_amount
  THEN c.derived_value
  ELSE f32_from_u8(c.amount_value)

\* The amount of an active component left as it is.
boost_current_never_drains(c, start, frame) == start

boost_current(c, start, frame) ==
  IF c.is_active THEN start - boost_used(frame.delta) ELSE start

\* The closure of update_boost_amounts: (current_value.max(0.0),
\* actor_amount_value) of one boost actor.
boost_update(actor_state, frame) ==
  LET result(c) ==
        [ current_value |-> f32_max(boost_current(c, boost_start(c), frame), 0),
          new_last_value |-> c.amount_value ]
  IN  result(get_current_boost_values(actor_state))

\* The two inserts into derived_attributes.
store_boost(derived_attributes, u) ==
  Insert(Insert(derived_attributes, LAST_BOOST_AMOUNT_KEY,
                Attribute_Byte(u.new_last_value)),
         BOOST_AMOUNT_KEY, Attribute_Float(u.current_value))

\* update_boost_amounts over the boost actors that the frame updates only.
update_boost_amounts_of_updated(S, frame) ==
  LET apply(ids) ==
        IF ~IsSome(ids) THEN [res |-> Err("UnknownObject"), self |-> S]
        ELSE
          [ res |-> Ok(0),
            self |->
              [S EXCEPT !.actor_states =
                 [a \in DOMAIN S.actor_states |->
                    IF /\ Contains(Unwrap(ids), a)
                       /\ \E i \in 1..Len(frame.updated_actors) :
                            frame.updated_actors[i].actor_id = a
                    THEN [S.actor_states[a] EXCEPT !.derived_attributes =
                            store_boost(S.actor_states[a].derived_attributes,
                                        boost_update(S.actor_states[a], frame))]
                    ELSE S.actor_states[a]]] ]
  IN  apply(iter_actors_by_type(S, BOOST_TYPE))

update_boost_amounts(S, frame) ==
  LET apply(ids) ==
        IF ~IsSome(ids) THEN [res |-> Err("UnknownObject"), self |-> S]
        ELSE
          [ res |-> Ok(0),
            self |->
              [S EXCEPT !.actor_states =
                 [a \in DOMAIN S.actor_states |->
                    IF Contains(Unwrap(ids), a)
                    THEN [S.actor_states[a] EXCEPT !.derived_attributes =
                            store_boost(S.actor_states[a].derived_attributes,
                                        boost_update(S.actor_states[a], frame))]
                    ELSE S.actor_states[a]]] ]
  IN  apply(iter_actors_by_type(S, BOOST_TYPE))

\* ------------------------------------------------------------------------
\* Timeline records (clean.rs:690-808)

BallFrame_Empty == [kind |-> "Empty"]
BallFrame_from_data(rigid_body) == [kind |-> "Data", rigid_body |-> rigid_body]

PlayerFrame_Empty == [kind |-> "Empty"]
PlayerFrame_from_data(rigid_body, boost_amount) ==
  [kind |-> "Data", rigid_body |-> rigid_body, boost_amount |-> boost_amount]

MetadataFrame_new(time, seconds_remaining) ==
  [time |-> time, seconds_remaining |-> seconds_remaining]

PlayerData_new == [frames |-> << >>]

ReplayData_new ==
  [ ball_data |-> [frames |-> << >>],
    players |-> EmptyMap,
    frame_metadata |-> << >> ]

\* frame_number - self.frames.len()
empty_frames_to_add(frames, frame_number) == frame_number - Len(frames)

\* add_frame pushing one Empty record more than empty_frames_to_add.
add_frame_one_more_empty(frames, frame_number, frame, empty) ==
  (frames \o [i \in 1..empty_frames_to_add(frames, frame_number) |-> empty])
    \o << empty, frame >>

\* PlayerData::add_frame and BallData::add_frame: the new self.frames.
add_frame(frames, frame_number, frame, empty) ==
  (frames \o [i \in 1..empty_frames_to_add(frames, frame_number) |-> empty])
    \o << frame >>

PlayerData_add_frame(self, frame_number, frame) ==
  [frames |-> add_frame(self.frames, frame_number, frame, PlayerFrame_Empty)]

BallData_add_frame(self, frame_number, frame) ==
  [frames |-> add_frame(self.frames, frame_number, frame, BallFrame_Empty)]

\* self.frame_metadata.len() after the push
frame_number_of(frame_metadata) == Len(frame_metadata)

\* HashMap::entry(player_id).or_insert_with(PlayerData::new)
players_entry(players, p) ==
  IF p \in DOMAIN players THEN players[p] ELSE PlayerData_new

\* ReplayData::add_frame; player_frames maps each player id of the Vec to
\* its frame (the Vec holds each key of player_to_actor_id once).
ReplayData_add_frame(self, metadata_frame, ball_frame, player_frames) ==
  LET add(frame_metadata, frame_number) ==
        [ frame_metadata |-> frame_metadata,
          ball_data |->
            BallData_add_frame(self.ball_data, frame_number, ball_frame),
          players |->
            [p \in (DOMAIN self.players) \cup (DOMAIN player_frames) |->
               IF p \in DOMAIN player_frames
               THEN PlayerData_add_frame(players_entry(self.players, p),
                                         frame_number, player_frames[p])
               ELSE self.players[p]] ]
      pushed(frame_metadata) ==
        add(frame_metadata, frame_number_of(frame_metadata))
  IN  pushed(Append(self.frame_metadata, metadata_frame))

\* ------------------------------------------------------------------------
\* Timeline assembly (clean.rs:267-294, 378-390, 547-613)

get_metadata_frame(S, time) ==
  LET convert(seconds_remaining) ==
        IF ~seconds_remaining.ok THEN Err(seconds_remaining.err)
        ELSE IF seconds_remaining.v < 0 \/ seconds_remaining.v > U8Max
        THEN Err("Conversion")
        ELSE Ok(MetadataFrame_new(time, seconds_remaining.v))
      first(ids) ==
        IF Len(ids) = 0 THEN Err("NoGameActor")
        ELSE convert(get_actor_attribute_matching(S, ids[1],
                                                  SECONDS_REMAINING_KEY, "Int"))
  IN  first(get_actor_ids_by_type(S, GAME_TYPE).v)

get_ball_frame(S, ball_actor_id) ==
  LET from(rigid_body) ==
        IF ~rigid_body.ok THEN Err(rigid_body.err)
        ELSE Ok(BallFrame_from_data(rigid_body.v))
  IN  IF IsSome(ball_actor_id)
      THEN from(get_actor_attribute_matching(S, Unwrap(ball_actor_id),
                                             RIGID_BODY_STATE_KEY, "RigidBody"))
      ELSE Ok(BallFrame_Empty)

get_car_actor_id(L, player_id) ==
  IF player_id \notin DOMAIN L.player_to_actor_id THEN Err("NoActorForPlayer")
  ELSE IF L.player_to_actor_id[player_id] \in DOMAIN L.player_actor_to_car_actor
  THEN Ok(L.player_actor_to_car_actor[L.player_to_actor_id[player_id]])
  ELSE Err("CarNotKnown")

get_car_actor(S, L, player_id) ==
  LET state(car_actor_id) ==
        IF ~car_actor_id.ok THEN Err(car_actor_id.err)
        ELSE IF car_actor_id.v \in DOMAIN S.actor_states
        THEN Ok(S.actor_states[car_actor_id.v])
        ELSE Err("CarActorNotFound")
  IN  state(get_car_actor_id(L, player_id))

get_boost_actor_id(L, player_id) ==
  LET boost(car_actor_id) ==
        IF ~car_actor_id.ok THEN Err(car_actor_id.err)
        ELSE IF car_actor_id.v \in DOMAIN L.car_actor_to_boost_actor
        THEN Ok(L.car_actor_to_boost_actor[car_actor_id.v])
        ELSE Err("BoostActorNotFound")
  IN  boost(get_car_actor_id(L, player_id))

get_frame_for_player(S, L, player_id) ==
  LET data(rigid_body, boost_amount) ==
        IF ~boost_amount.ok THEN Err(boost_amount.err)
        ELSE Ok(PlayerFrame_from_data(rigid_body.v, boost_amount.v))
      boost(rigid_body, boost_actor_id) ==
        IF ~boost_actor_id.ok THEN Err(boost_actor_id.err)
        ELSE IF boost_actor_id.v \notin DOMAIN S.actor_states
        THEN Err("BoostStateNotFound")
        ELSE data(rigid_body,
                  get_derived_attribute(
                    S.actor_states[boost_actor_id.v].derived_attributes,
                    BOOST_AMOUNT_KEY, "Float"))
      body(rigid_body) ==
        IF ~rigid_body.ok THEN Err(rigid_body.err)
        ELSE boost(rigid_body, get_boost_actor_id(L, player_id))
      car(car_state) ==
        IF ~car_state.ok THEN Err(car_state.err)
        ELSE body(get_attribute_matching(car_state.v.attributes,
                                         RIGID_BODY_STATE_KEY, "RigidBody"))
  IN  car(get_car_actor(S, L, player_id))

\* unwrap_or_else(|e| PlayerFrame::Empty)
unwrap_or_empty(r) == IF r.ok THEN r.v ELSE PlayerFrame_Empty

\* get_player_frames with the error of a player passed on (the ? operator
\* in place of unwrap_or_else).
get_player_frames_propagates(S, L) ==
  IF \E player_id \in DOMAIN L.player_to_actor_id :
       ~get_frame_for_player(S, L, player_id).ok
  THEN Err("PlayerFrame")
  ELSE Ok([player_id \in DOMAIN L.player_to_actor_id |->
             get_frame_for_player(S, L, player_id).v])

\* get_player_frames: one (player id, frame) per key of player_to_actor_id,
\* an Err of get_frame_for_player replaced by PlayerFrame::Empty.
get_player_frames(S, L) ==
  Ok([player_id \in DOMAIN L.player_to_actor_id |->
        unwrap_or_empty(get_frame_for_player(S, L, player_id))])

\* add_frame_to_replay_data: the Result, the function that returned the
\* error, and the ReplayData as the call leaves it.
add_frame_to_replay_data(S, L, ball_actor_id, replay_data, time) ==
  LET failed(r, at) ==
        [res |-> Err(r.err), at |-> at, replay_data |-> replay_data]
      add(metadata_frame, ball_frame, player_frames) ==
        IF ~metadata_frame.ok THEN failed(metadata_frame, "get_metadata_frame")
        ELSE IF ~ball_frame.ok THEN failed(ball_frame, "get_ball_frame")
        ELSE IF ~player_frames.ok THEN failed(player_frames, "get_player_frames")
        ELSE [ res |-> Ok(0), at |-> "",
               replay_data |->
                 ReplayData_add_frame(replay_data, metadata_frame.v,
                                      ball_frame.v, player_frames.v) ]
  IN  add(get_metadata_frame(S, time), get_ball_frame(S, ball_actor_id),
          get_player_frames(S, L))

\* ------------------------------------------------------------------------
\* The input: frames of the replay (boxcars::Frame, NewActor,
\* UpdatedAttribute as clean.rs reads them)

NewActor(actor_id, type, name_id) ==
  [actor_id |-> actor_id, object_id |-> Oid(type), name_id |-> name_id]

UpdatedAttribute(actor_id, key, attribute) ==
  [actor_id |-> actor_id, object_id |-> Oid(key), attribute |-> attribute]

Frame(time, delta, deleted_actors, new_actors, updated_actors) ==
  [ time |-> time, delta |-> delta, deleted_actors |-> deleted_actors,
    new_actors |-> new_actors, updated_actors |-> updated_actors ]

\* The frames a replay of the model is made of.  Actor 1 is the game event,
\* 2 a player's replication info, 3 its car, 4 the car's boost component,
\* 5 and 6 a ball, a second player or further car components; the frames
\* that reuse an id, repeat a spawn or address an absent actor are here
\* as well, and a replay is any sequence of at most MaxFrames of them.
FrameCatalogue ==
  { \* kickoff: game, player, car and boost, fully linked
    Frame(0, 0, << >>,
          << NewActor(1, GAME_TYPE, None), NewActor(2, PLAYER_TYPE, None),
             NewActor(3, CAR_TYPE, None), NewActor(4, BOOST_TYPE, None) >>,
          << UpdatedAttribute(1, SECONDS_REMAINING_KEY, Attribute_Int(30)),
             UpdatedAttribute(2, UNIQUE_ID_KEY, Attribute_UniqueId(1)),
             UpdatedAttribute(3, PLAYER_REPLICATION_KEY, Attribute_ActiveActor(2)),
             UpdatedAttribute(3, RIGID_BODY_STATE_KEY, Attribute_RigidBody(1)),
             UpdatedAttribute(4, VEHICLE_KEY, Attribute_ActiveActor(3)),
             UpdatedAttribute(4, BOOST_AMOUNT_KEY, Attribute_Byte(85)) >>),
    \* lobby: game and player only
    Frame(0, 0, << >>,
          << NewActor(1, GAME_TYPE, None), NewActor(2, PLAYER_TYPE, None) >>,
          << UpdatedAttribute(1, SECONDS_REMAINING_KEY, Attribute_Int(30)),
             UpdatedAttribute(2, UNIQUE_ID_KEY, Attribute_UniqueId(1)) >>),
    \* a car for player actor 2
    Frame(1, 1, << >>,
          << NewActor(3, CAR_TYPE, None) >>,
          << UpdatedAttribute(3, PLAYER_REPLICATION_KEY, Attribute_ActiveActor(2)),
             UpdatedAttribute(3, RIGID_BODY_STATE_KEY, Attribute_RigidBody(1)) >>),
    \* an active boost component for car 3
    Frame(1, 1, << >>,
          << NewActor(4, BOOST_TYPE, None) >>,
          << UpdatedAttribute(4, VEHICLE_KEY, Attribute_ActiveActor(3)),
             UpdatedAttribute(4, BOOST_AMOUNT_KEY, Attribute_Byte(85)),
             UpdatedAttribute(4, COMPONENT_ACTIVE_KEY, Attribute_Byte(1)) >>),
    \* the car is deleted
    Frame(1, 1, << 3 >>, << >>, << >>),
    \* the car is deleted and its id reused by a ball
    Frame(1, 1, << 3 >>,
          << NewActor(3, "Archetypes.Ball.Ball_Default", None) >>,
          << UpdatedAttribute(3, RIGID_BODY_STATE_KEY, Attribute_RigidBody(2)) >>),
    \* the boost component is deleted
    Frame(1, 1, << 4 >>, << >>, << >>),
    \* the boost component is deleted and its id reused by a jump component
    Frame(1, 1, << 4 >>,
          << NewActor(4, JUMP_TYPE, None) >>,
          << UpdatedAttribute(4, VEHICLE_KEY, Attribute_ActiveActor(3)) >>),
    \* the player actor is deleted
    Frame(1, 1, << 2 >>, << >>, << >>),
    \* a ball with a rigid body
    Frame(1, 1, << >>,
          << NewActor(5, "Archetypes.Ball.Ball_Default", None) >>,
          << UpdatedAttribute(5, RIGID_BODY_STATE_KEY, Attribute_RigidBody(3)) >>),
    \* a ball without a rigid body
    Frame(1, 1, << >>,
          << NewActor(5, "Archetypes.Ball.Ball_Puck", None) >>, << >>),
    \* actor 5 moves
    Frame(2, 1, << >>, << >>,
          << UpdatedAttribute(5, RIGID_BODY_STATE_KEY, Attribute_RigidBody(4)) >>),
    \* actor 5 is deleted
    Frame(2, 1, << 5 >>, << >>, << >>),
    \* the car is spawned again, under another name
    Frame(2, 1, << >>, << NewActor(3, CAR_TYPE, Some(7)) >>, << >>),
    \* id 3 is spawned as a boost component
    Frame(2, 1, << >>, << NewActor(3, BOOST_TYPE, None) >>, << >>),
    \* nothing happens
    Frame(2, 1, << >>, << >>, << >>),
    \* the clock leaves the range of a byte
    Frame(2, 1, << >>, << >>,
          << UpdatedAttribute(1, SECONDS_REMAINING_KEY, Attribute_Int(300)) >>),
    \* a second player, and the car changes hands twice within the frame
    Frame(2, 1, << >>,
          << NewActor(5, PLAYER_TYPE, None) >>,
          << UpdatedAttribute(5, UNIQUE_ID_KEY, Attribute_UniqueId(2)),
             UpdatedAttribute(3, PLAYER_REPLICATION_KEY, Attribute_ActiveActor(2)),
             UpdatedAttribute(3, PLAYER_REPLICATION_KEY, Attribute_ActiveActor(5)) >>),
    \* dodge and double-jump components for car 3
    Frame(2, 1, << >>,
          << NewActor(5, DODGE_TYPE, None), NewActor(6, DOUBLE_JUMP_TYPE, None) >>,
          << UpdatedAttribute(5, VEHICLE_KEY, Attribute_ActiveActor(3)),
             UpdatedAttribute(6, VEHICLE_KEY, Attribute_ActiveActor(3)) >>),
    \* a second boost component for car 3
    Frame(2, 1, << >>,
          << NewActor(6, BOOST_TYPE, None) >>,
          << UpdatedAttribute(6, VEHICLE_KEY, Attribute_ActiveActor(3)) >>),
    \* the player's actor leaves in the frame in which its car links to it
    Frame(2, 1, << 2 >>, << >>,
          << UpdatedAttribute(3, PLAYER_REPLICATION_KEY, Attribute_ActiveActor(2)) >>),
    \* the player's actor is deleted and spawned again in the frame in which
    \* its car links to it
    Frame(2, 1, << 2 >>, << NewActor(2, PLAYER_TYPE, None) >>,
          << UpdatedAttribute(3, PLAYER_REPLICATION_KEY, Attribute_ActiveActor(2)) >>),
    \* the boost component is refilled to 100 while in use
    Frame(2, 1, << >>, << >>,
          << UpdatedAttribute(4, BOOST_AMOUNT_KEY, Attribute_Byte(100)),
             UpdatedAttribute(4, COMPONENT_ACTIVE_KEY, Attribute_Byte(1)) >>),
    \* the boost component is refilled to 255
    Frame(2, 1, << >>, << >>,
          << UpdatedAttribute(4, BOOST_AMOUNT_KEY, Attribute_Byte(255)) >>),
    \* the boost component is released
    Frame(2, 1, << >>, << >>,
          << UpdatedAttribute(4, COMPONENT_ACTIVE_KEY, Attribute_Byte(2)) >>),
    \* the car is deleted and spawned again in the same frame
    Frame(2, 1, << 3 >>, << NewActor(3, CAR_TYPE, None) >>, << >>),
    \* actor 5 is deleted in the frame that updates it
    Frame(2, 1, << 5 >>, << >>,
          << UpdatedAttribute(5, RIGID_BODY_STATE_KEY, Attribute_RigidBody(4)) >>),
    \* a vehicle link of the wrong variant
    Frame(2, 1, << >>, << >>,
          << UpdatedAttribute(4, VEHICLE_KEY, Attribute_Int(3)) >>) }

Range(s) == {s[i] : i \in 1..Len(s)}

\* The actor ids and player ids the frames name.
ActorIds ==
  UNION { Range(f.deleted_actors)
            \cup {f.new_actors[i].actor_id : i \in 1..Len(f.new_actors)}
            \cup {f.updated_actors[i].actor_id : i \in 1..Len(f.updated_actors)}
          : f \in FrameCatalogue }

PlayerIds ==
  UNION { {f.updated_actors[i].attribute.v :
             i \in {j \in 1..Len(f.updated_actors) :
                      f.updated_actors[j].attribute.tag = "UniqueId"}}
          : f \in FrameCatalogue }

NoFrame == Frame(0, 0, << >>, << >>, << >>)

\* ------------------------------------------------------------------------
\* Primitive bit decoder (network/models.rs:5-84, 206-267)
\*
\* A BitGet is the data, a sequence of bits in the order in which they are
\* read (the low bit of each byte first), and the number of bits consumed.
\* `beyond` is the bit an unchecked read finds past the end of the data.  A
\* read returns [v, bits]: the value and the cursor after the read.

BitGet_new(data, beyond) == [data |-> data, pos |-> 0, beyond |-> beyond]

bit_at(b, i) == IF i <= Len(b.data) THEN b.data[i] ELSE b.beyond

\* The unsigned value of the n bits after position from, low bit first.
RECURSIVE le_value(_, _, _)
le_value(b, from, n) ==
  IF n = 0 THEN 0 ELSE bit_at(b, from + 1) + 2 * le_value(b, from + 1, n - 1)

advance(b, n) == [b EXCEPT !.pos = @ + n]

\* x as i32, for x in the range of u32
as_i32(x) == IF x > I32Max THEN (x - I32Max) - I32Max - 2 ELSE x

\* x as i8, for x in the range of u8
as_i8(x) == IF x >= 2 ^ I8Bits THEN x - 2 ^ (I8Bits + 1) ELSE x

\* 1 << k on i32; a size selector keeps k below 31, so no bit is shifted out.
shl_1(k) == as_i32(2 ^ k)

read_u32_bits(b, n) ==
  IF b.pos + n <= Len(b.data)
  THEN [v |-> Some(le_value(b, b.pos, n)), bits |-> advance(b, n)]
  ELSE [v |-> None, bits |-> b]

read_u32_bits_unchecked(b, n) ==
  [v |-> le_value(b, b.pos, n), bits |-> advance(b, n)]

read_bit(b) ==
  IF b.pos + 1 <= Len(b.data)
  THEN [v |-> Some(bit_at(b, b.pos + 1) = 1), bits |-> advance(b, 1)]
  ELSE [v |-> None, bits |-> b]

read_bit_unchecked(b) == [v |-> bit_at(b, b.pos + 1) = 1, bits |-> advance(b, 1)]

read_i8(b) ==
  IF b.pos + ByteBits <= Len(b.data)
  THEN [v |-> Some(as_i8(le_value(b, b.pos, ByteBits))), bits |-> advance(b, ByteBits)]
  ELSE [v |-> None, bits |-> b]

read_i8_unchecked(b) ==
  [v |-> as_i8(le_value(b, b.pos, ByteBits)), bits |-> advance(b, ByteBits)]

\* read_bits_max_computed(bits, max): `bits` bits, and one more bit when
\* the value with that bit set stays below max.
read_bits_max_computed(b, n, max) ==
  LET more(data, r) ==
        IF ~IsSome(r.v) THEN r
        ELSE [v |-> Some(IF Unwrap(r.v) THEN data + 2 ^ n ELSE data),
              bits |-> r.bits]
      first(r) ==
        IF ~IsSome(r.v) THEN r
        ELSE IF Unwrap(r.v) + 2 ^ n >= max THEN r
        ELSE more(Unwrap(r.v), read_bit(r.bits))
  IN  first(read_u32_bits(b, n))

read_bits_max_computed_unchecked(b, n, max) ==
  LET more(data, r) ==
        [v |-> IF r.v THEN data + 2 ^ n ELSE data, bits |-> r.bits]
      first(r) ==
        IF r.v + 2 ^ n >= max THEN r
        ELSE more(r.v, read_bit_unchecked(r.bits))
  IN  first(read_u32_bits_unchecked(b, n))

\* if_get(BitGet::read_i8): a flag bit, and the value when the flag is set.
if_get_read_i8(b) ==
  LET value(r) ==
        IF ~IsSome(r.v) THEN r ELSE [v |-> Some(r.v), bits |-> r.bits]
      flag(r) ==
        IF ~IsSome(r.v) THEN r
        ELSE IF Unwrap(r.v) THEN value(read_i8(r.bits))
        ELSE [v |-> Some(None), bits |-> r.bits]
  IN  flag(read_bit(b))

if_get_unchecked_read_i8(b) ==
  LET value(r) == [v |-> Some(r.v), bits |-> r.bits]
      flag(r) ==
        IF r.v THEN value(read_i8_unchecked(r.bits))
        ELSE [v |-> None, bits |-> r.bits]
  IN  flag(read_bit_unchecked(b))

Vector(bias, dx, dy, dz) == [bias |-> bias, dx |-> dx, dy |-> dy, dz |-> dz]

\* The two limits of the size selector exchanged.
max_size_bits_exchanged(net_version) ==
  IF net_version >= NewVectorVersion THEN MaxSizeBitsOld ELSE MaxSizeBitsNew

\* if net_version >= 7 { 22 } else { 20 }
max_size_bits(net_version) ==
  IF net_version >= NewVectorVersion THEN MaxSizeBitsNew ELSE MaxSizeBitsOld

\* Vector::decode with bias = 1 << size_bits.
Vector_decode_bias_of_size(b, net_version) ==
  LET z(bias, dx, dy, r) ==
        IF ~IsSome(r.v) THEN r
        ELSE [v |-> Some(Vector(as_i32(bias), as_i32(dx), as_i32(dy),
                                as_i32(Unwrap(r.v)))),
              bits |-> r.bits]
      y(bias, bit_limit, dx, r) ==
        IF ~IsSome(r.v) THEN r
        ELSE z(bias, dx, Unwrap(r.v), read_u32_bits(r.bits, bit_limit))
      x(bias, bit_limit, r) ==
        IF ~IsSome(r.v) THEN r
        ELSE y(bias, bit_limit, Unwrap(r.v), read_u32_bits(r.bits, bit_limit))
      size(r) ==
        IF ~IsSome(r.v) THEN r
        ELSE x(shl_1(Unwrap(r.v)), Unwrap(r.v) + 2,
               read_u32_bits(r.bits, Unwrap(r.v) + 2))
  IN  size(read_bits_max_computed(b, SizeSelectorBits, max_size_bits(net_version)))

\* Vector::decode reading dz without the check for the end of the data.
Vector_decode_unchecked_dz(b, net_version) ==
  LET z(bias, dx, dy, r) ==
        [v |-> Some(Vector(as_i32(bias), as_i32(dx), as_i32(dy), as_i32(r.v))),
         bits |-> r.bits]
      y(bias, bit_limit, dx, r) ==
        IF ~IsSome(r.v) THEN r
        ELSE z(bias, dx, Unwrap(r.v), read_u32_bits_unchecked(r.bits, bit_limit))
      x(bias, bit_limit, r) ==
        IF ~IsSome(r.v) THEN r
        ELSE y(bias, bit_limit, Unwrap(r.v), read_u32_bits(r.bits, bit_limit))
      size(r) ==
        IF ~IsSome(r.v) THEN r
        ELSE x(shl_1(Unwrap(r.v) + 1), Unwrap(r.v) + 2,
               read_u32_bits(r.bits, Unwrap(r.v) + 2))
  IN  size(read_bits_max_computed(b, SizeSelectorBits, max_size_bits(net_version)))

\* Vector::decode: Some(Vector) or None, and the cursor where the chain
\* stopped.
Vector_decode(b, net_version) ==
  LET z(bias, dx, dy, r) ==
        IF ~IsSome(r.v) THEN r
        ELSE [v |-> Some(Vector(as_i32(bias), as_i32(dx), as_i32(dy),
                                as_i32(Unwrap(r.v)))),
              bits |-> r.bits]
      y(bias, bit_limit, dx, r) ==
        IF ~IsSome(r.v) THEN r
        ELSE z(bias, dx, Unwrap(r.v), read_u32_bits(r.bits, bit_limit))
      x(bias, bit_limit, r) ==
        IF ~IsSome(r.v) THEN r
        ELSE y(bias, bit_limit, Unwrap(r.v), read_u32_bits(r.bits, bit_limit))
      size(r) ==
        IF ~IsSome(r.v) THEN r
        ELSE x(shl_1(Unwrap(r.v) + 1), Unwrap(r.v) + 2,
               read_u32_bits(r.bits, Unwrap(r.v) + 2))
  IN  size(read_bits_max_computed(b, SizeSelectorBits, max_size_bits(net_version)))

\* Vector::decode_unchecked with dy read before dx.
Vector_decode_unchecked_swapped(b, net_version) ==
  LET z(bias, dx, dy, r) ==
        [v |-> Vector(as_i32(bias), as_i32(dy), as_i32(dx), as_i32(r.v)),
         bits |-> r.bits]
      y(bias, bit_limit, dx, r) ==
        z(bias, dx, r.v, read_u32_bits_unchecked(r.bits, bit_limit))
      x(bias, bit_limit, r) ==
        y(bias, bit_limit, r.v, read_u32_bits_unchecked(r.bits, bit_limit))
      size(r) ==
        x(shl_1(r.v + 1), r.v + 2, read_u32_bits_unchecked(r.bits, r.v + 2))
  IN  size(read_bits_max_computed_unchecked(b, SizeSelectorBits,
                                            max_size_bits(net_version)))

Vector_decode_unchecked(b, net_version) ==
  LET z(bias, dx, dy, r) ==
        [v |-> Vector(as_i32(bias), as_i32(dx), as_i32(dy), as_i32(r.v)),
         bits |-> r.bits]
      y(bias, bit_limit, dx, r) ==
        z(bias, dx, r.v, read_u32_bits_unchecked(r.bits, bit_limit))
      x(bias, bit_limit, r) ==
        y(bias, bit_limit, r.v, read_u32_bits_unchecked(r.bits, bit_limit))
      size(r) ==
        x(shl_1(r.v + 1), r.v + 2, read_u32_bits_unchecked(r.bits, r.v + 2))
  IN  size(read_bits_max_computed_unchecked(b, SizeSelectorBits,
                                            max_size_bits(net_version)))

\* read_bits_max(bits, max) of the BitGet network.rs was written for:
\* bits - 1 bits, and one more bit when the value with that bit set stays
\* below max.
read_bits_max(b, bits, max) ==
  LET more(data, r) ==
        IF ~IsSome(r.v) THEN r
        ELSE [v |-> Some(IF Unwrap(r.v) THEN data + 2 ^ (bits - 1) ELSE data),
              bits |-> r.bits]
      first(r) ==
        IF ~IsSome(r.v) THEN r
        ELSE IF Unwrap(r.v) + 2 ^ (bits - 1) >= max THEN r
        ELSE more(Unwrap(r.v), read_bit(r.bits))
  IN  first(read_u32_bits(b, bits - 1))

\* Vector::decode of network.rs with a selector of five bits read whole.
network_Vector_decode_five_bits(b) ==
  LET z(bias, dx, dy, r) ==
        IF ~IsSome(r.v) THEN r
        ELSE [v |-> Some(Vector(as_i32(bias), as_i32(dx), as_i32(dy),
                                as_i32(Unwrap(r.v)))),
              bits |-> r.bits]
      y(bias, bit_limit, dx, r) ==
        IF ~IsSome(r.v) THEN r
        ELSE z(bias, dx, Unwrap(r.v), read_u32_bits(r.bits, bit_limit))
      x(bias, bit_limit, r) ==
        IF ~IsSome(r.v) THEN r
        ELSE y(bias, bit_limit, Unwrap(r.v), read_u32_bits(r.bits, bit_limit))
      size(r) ==
        IF ~IsSome(r.v) THEN r
        ELSE x(shl_1(Unwrap(r.v) + 1), Unwrap(r.v) + 2,
               read_u32_bits(r.bits, Unwrap(r.v) + 2))
  IN  size(read_u32_bits(b, LegacySelectorBits))

\* Vector::decode of network.rs (network.rs:14-33)
network_Vector_decode(b) ==
  LET z(bias, dx, dy, r) ==
        IF ~IsSome(r.v) THEN r
        ELSE [v |-> Some(Vector(as_i32(bias), as_i32(dx), as_i32(dy),
                                as_i32(Unwrap(r.v)))),
              bits |-> r.bits]
      y(bias, bit_limit, dx, r) ==
        IF ~IsSome(r.v) THEN r
        ELSE z(bias, dx, Unwrap(r.v), read_u32_bits(r.bits, bit_limit))
      x(bias, bit_limit, r) ==
        IF ~IsSome(r.v) THEN r
        ELSE y(bias, bit_limit, Unwrap(r.v), read_u32_bits(r.bits, bit_limit))
      size(r) ==
        IF ~IsSome(r.v) THEN r
        ELSE x(shl_1(Unwrap(r.v) + 1), Unwrap(r.v) + 2,
               read_u32_bits(r.bits, Unwrap(r.v) + 2))
  IN  size(read_bits_max(b, LegacySelectorBits, LegacyMaxSizeBits))

Rotation(yaw, pitch, roll) == [yaw |-> yaw, pitch |-> pitch, roll |-> roll]

\* Rotation::decode with the roll read before the pitch.
Rotation_decode_roll_first(b) ==
  LET pitch(yaw, roll, r) ==
        IF ~IsSome(r.v) THEN r
        ELSE [v |-> Some(Rotation(yaw, Unwrap(r.v), roll)), bits |-> r.bits]
      roll(yaw, r) ==
        IF ~IsSome(r.v) THEN r
        ELSE pitch(yaw, Unwrap(r.v), if_get_read_i8(r.bits))
      yaw(r) ==
        IF ~IsSome(r.v) THEN r
        ELSE roll(Unwrap(r.v), if_get_read_i8(r.bits))
  IN  yaw(if_get_read_i8(b))

\* Rotation::decode
Rotation_decode(b) ==
  LET roll(yaw, pitch, r) ==
        IF ~IsSome(r.v) THEN r
        ELSE [v |-> Some(Rotation(yaw, pitch, Unwrap(r.v))), bits |-> r.bits]
      pitch(yaw, r) ==
        IF ~IsSome(r.v) THEN r
        ELSE roll(yaw, Unwrap(r.v), if_get_read_i8(r.bits))
      yaw(r) ==
        IF ~IsSome(r.v) THEN r
        ELSE pitch(Unwrap(r.v), if_get_read_i8(r.bits))
  IN  yaw(if_get_read_i8(b))

Rotation_decode_unchecked(b) ==
  LET roll(yaw, pitch, r) ==
        [v |-> Rotation(yaw, pitch, r.v), bits |-> r.bits]
      pitch(yaw, r) == roll(yaw, r.v, if_get_unchecked_read_i8(r.bits))
      yaw(r) == pitch(r.v, if_get_unchecked_read_i8(r.bits))
  IN  yaw(if_get_unchecked_read_i8(b))

\* SpawnTrajectory (models.rs:88-93)
SpawnTrajectory == {"None", "Location", "LocationAndRotation"}

Trajectory(location, rotation) == [location |-> location, rotation |-> rotation]

\* Trajectory::from_spawn keeping the location when the rotation fails.
Trajectory_from_spawn_keeps_location(b, sp, net_version) ==
  LET location(v) ==
        IF ~IsSome(v.v) THEN v
        ELSE [v |-> Some(Trajectory(Some(Unwrap(v.v)), None)), bits |-> v.bits]
      both(v, r) ==
        IF ~IsSome(r.v) THEN location(v)
        ELSE [v |-> Some(Trajectory(Some(Unwrap(v.v)), Some(Unwrap(r.v)))),
              bits |-> r.bits]
      then_rotation(v) ==
        IF ~IsSome(v.v) THEN v ELSE both(v, Rotation_decode(v.bits))
  IN  IF sp = "None" THEN [v |-> Some(Trajectory(None, None)), bits |-> b]
      ELSE IF sp = "Location" THEN location(Vector_decode(b, net_version))
      ELSE then_rotation(Vector_decode(b, net_version))

\* Trajectory::from_spawn
Trajectory_from_spawn(b, sp, net_version) ==
  LET location(v) ==
        IF ~IsSome(v.v) THEN v
        ELSE [v |-> Some(Trajectory(Some(Unwrap(v.v)), None)), bits |-> v.bits]
      both(v, r) ==
        IF ~IsSome(r.v) THEN r
        ELSE [v |-> Some(Trajectory(Some(Unwrap(v.v)), Some(Unwrap(r.v)))),
              bits |-> r.bits]
      then_rotation(v) ==
        IF ~IsSome(v.v) THEN v ELSE both(v, Rotation_decode(v.bits))
  IN  IF sp = "None" THEN [v |-> Some(Trajectory(None, None)), bits |-> b]
      ELSE IF sp = "Location" THEN location(Vector_decode(b, net_version))
      ELSE then_rotation(Vector_decode(b, net_version))

Trajectory_from_spawn_unchecked(b, sp, net_version) ==
  LET location(v) == [v |-> Trajectory(Some(v.v), None), bits |-> v.bits]
      both(v, r) == [v |-> Trajectory(Some(v.v), Some(r.v)), bits |-> r.bits]
      then_rotation(v) == both(v, Rotation_decode_unchecked(v.bits))
  IN  IF sp = "None" THEN [v |-> Trajectory(None, None), bits |-> b]
      ELSE IF sp = "Location"
      THEN location(Vector_decode_unchecked(b, net_version))
      ELSE then_rotation(Vector_decode_unchecked(b, net_version))

\* ------------------------------------------------------------------------
\* Decoding one bit source with the checked and with the unchecked decoder
\* (the tests of network/models.rs:295-350 do so on the same bytes)

\* The bits of one byte in the order in which BitGet reads them.
bits_of_byte(x) == [i \in 1..ByteBits |-> (x \div 2 ^ (i - 1)) % 2]

RECURSIVE bits_of(_)
bits_of(bytes) ==
  IF bytes = << >> THEN << >>
  ELSE bits_of_byte(Head(bytes)) \o bits_of(Tail(bytes))

\* Longest bit source of which every content is decoded.
MaxBits == 11

RECURSIVE BitSeqs(_)
BitSeqs(n) ==
  IF n = 0 THEN {<< >>}
  ELSE LET shorter == BitSeqs(n - 1)
       IN  shorter \cup {Append(s, bit) : s \in {t \in shorter : Len(t) = n - 1},
                                          bit \in {0, 1}}

\* A selector followed by three axes of n bits, every bit set.
LargestVector(selector, n) == selector \o [i \in 1..(3 * n) |-> 1]

\* Longer bit sources: the bytes of the two tests, and sources holding
\* negative components, a vector followed by a rotation, and a size
\* selector that the two network versions read differently; and the two
\* vectors with the largest size selector, 21 and 19, and the largest axes.
Samples ==
  { bits_of(<<6, 8, 216, 13>>),                   \* test_decode_vector
    bits_of(<<5, 0>>),                            \* test_decode_rotation
    <<1, 1,1,1,1,1,1,1,1, 1, 0,1,0,0,0,0,0,0, 1, 0,0,0,0,0,0,0,1>>,
    <<0, 1, 1,0,1,1,1,1,1,1, 0, 1>>,
    <<1,0,0,0, 0, 1,0,1, 0,1,1, 1,1,0, 0, 1, 1,1,0,0,0,0,0,1, 0, 1>>,
    <<0,0,0,0, 0, 1,0, 0,1, 1,1, 1, 0,0,0,0,0,0,0,0, 0, 1, 0,0,1,0,0,0,0,0>>,
    <<0,0,1,0, 0, 1,0,1,0,1,0, 1,1,0,0,1,1, 0,0,0,1,1,1, 1>>,
    LargestVector(<<1,0,1,0, 1>>, MaxSizeBitsNew + 1),
    LargestVector(<<1,1,0,0, 1>>, MaxSizeBitsOld + 1) }

Prefixes(s) == {SubSeq(s, 1, n) : n \in 0..Len(s)}

Inputs == BitSeqs(MaxBits) \cup UNION {Prefixes(s) : s \in Samples}

\* The network versions decoded: one on each side of the selector change.
NetVersions == {OldNetVersion, NewVectorVersion}

\* What an unchecked read past the end of the data does: it finds zeros,
\* it finds ones, or the process stops.
Beyond == {"zeros", "ones", "abort"}

VARIABLES
  input,                           \* the bits given to BitGet::new
  checked,                         \* the call of a checked decoder, its
                                   \* result and the cursor it left
  unchecked,                       \* the same for the unchecked decoder
  legacy                           \* the same for Vector::decode of
                                   \* network.rs

decoderVars == << input, checked, unchecked, legacy >>

NotRun == [fn |-> "none"]

Call(fn, sp, net_version, r) ==
  [fn |-> fn, sp |-> sp, net_version |-> net_version, v |-> r.v,
   pos |-> r.bits.pos, aborted |-> FALSE]

\* The unchecked call under the behaviour `beyond` of reads past the end.
UncheckedCall(fn, sp, net_version, r, beyond) ==
  [Call(fn, sp, net_version, r) EXCEPT
     !.aborted = beyond = "abort" /\ r.bits.pos > Len(r.bits.data)]

beyond_bit(beyond) == IF beyond = "ones" THEN 1 ELSE 0

\* ------------------------------------------------------------------------
\* State: the fields of ReplayProcessor (clean.rs:206-219) and the position
\* of get_data in the replay

VARIABLES
  actor_state,                     \* ActorStateModeler
  ball_actor_id,                   \* Option<ActorId>
  player_to_actor_id,
  player_actor_to_car_actor,
  car_actor_to_boost_actor,
  car_actor_to_jump_actor,
  car_actor_to_double_jump_actor,
  car_actor_to_dodge_actor,
  replay_data,                     \* ReplayData
  frame,                           \* the frame get_data is processing
  index,                           \* number of frames get_data has taken
  pc,                              \* the call get_data makes next
  pos,                             \* position in the event list being applied
  error,                           \* the Err get_data returned, and by whom
  car_lost                         \* history: player actors whose linked car
                                   \* was deleted, no link update since

replayVars ==
  << actor_state, ball_actor_id, player_to_actor_id, player_actor_to_car_actor,
     car_actor_to_boost_actor, car_actor_to_jump_actor,
     car_actor_to_double_jump_actor, car_actor_to_dodge_actor, replay_data,
     frame, index, pc, pos, error, car_lost >>

vars == << replayVars, decoderVars >>

linkVars ==
  << player_to_actor_id, player_actor_to_car_actor, car_actor_to_boost_actor,
     car_actor_to_jump_actor, car_actor_to_double_jump_actor,
     car_actor_to_dodge_actor, car_lost >>

\* The six relationship maps as one record.
LinkMaps ==
  [ player_actor_to_car_actor |-> player_actor_to_car_actor,
    player_to_actor_id |-> player_to_actor_id,
    car_actor_to_boost_actor |-> car_actor_to_boost_actor,
    car_actor_to_dodge_actor |-> car_actor_to_dodge_actor,
    car_actor_to_jump_actor |-> car_actor_to_jump_actor,
    car_actor_to_double_jump_actor |-> car_actor_to_double_jump_actor ]

NoError == [kind |-> "", at |-> ""]

\* ReplayProcessor::new
ReplayProcessor_new ==
  /\ actor_state = ActorStateModeler_new
  /\ ball_actor_id = None
  /\ player_to_actor_id = LinkMaps_new.player_to_actor_id
  /\ player_actor_to_car_actor = LinkMaps_new.player_actor_to_car_actor
  /\ car_actor_to_boost_actor = LinkMaps_new.car_actor_to_boost_actor
  /\ car_actor_to_jump_actor = LinkMaps_new.car_actor_to_jump_actor
  /\ car_actor_to_double_jump_actor = LinkMaps_new.car_actor_to_double_jump_actor
  /\ car_actor_to_dodge_actor = LinkMaps_new.car_actor_to_dodge_actor
  /\ replay_data = ReplayData_new
  /\ frame = NoFrame
  /\ index = 0
  /\ pc = "next_frame"
  /\ pos = 1
  /\ error = NoError
  /\ car_lost = {}

\* The replay is processed; no decoder is called.
Init ==
  /\ ReplayProcessor_new
  /\ input = << >>
  /\ checked = NotRun
  /\ unchecked = NotRun
  /\ legacy = NotRun

\* ------------------------------------------------------------------------
\* process_frame (clean.rs:74-100): the three passes, each stopping at its
\* first Err.  The position after the pass over a list is the first event
\* of the next non-empty list.

start_updates(f) ==
  IF Len(f.updated_actors) > 0 THEN "update_attribute"
  ELSE "update_player_to_car_mappings"

\* process_frame without the pass over frame.new_actors.
start_without_spawns(f) == start_updates(f)

start_spawns(f) ==
  IF Len(f.new_actors) > 0 THEN "new_actor" ELSE start_updates(f)

\* process_frame without the pass over frame.deleted_actors.
start_without_deletes(f) == start_spawns(f)

start_deletes(f) ==
  IF Len(f.deleted_actors) > 0 THEN "delete_actor" ELSE start_spawns(f)

\* get_data returns the Err of the call `at` (the ? operator).
Fail(kind, at) ==
  /\ pc' = "failed"
  /\ error' = [kind |-> kind, at |-> at]

\* The for loop of get_data takes the next frame of the replay.
NextFrame ==
  /\ pc = "next_frame"
  /\ index < MaxFrames
  /\ \E f \in FrameCatalogue :
       /\ frame' = f
       /\ pc' = start_deletes(f)
  /\ index' = index + 1
  /\ pos' = 1
  /\ UNCHANGED << decoderVars, actor_state, ball_actor_id, linkVars, replay_data, error >>

\* The replay has no further frame: get_data returns Ok(self.replay_data).
Finish ==
  /\ pc = "next_frame"
  /\ pc' = "done"
  /\ UNCHANGED << decoderVars, actor_state, ball_actor_id, linkVars, replay_data, frame,
                  index, pos, error >>

\* process_frame dropping the Err of a call and going on with the next
\* event.
StoreStep_drops_error(r, at, len, after) ==
  /\ actor_state' = r.self
  /\ error' = error
  /\ IF pos < len
     THEN pc' = pc /\ pos' = pos + 1
     ELSE pc' = after /\ pos' = 1
  /\ UNCHANGED << decoderVars, ball_actor_id, linkVars, replay_data, frame, index >>

\* One element of a pass of process_frame: r is what the call on the
\* element returned, len the length of the list, after the call that
\* follows the pass.
StoreStep(r, at, len, after) ==
  /\ actor_state' = r.self
  /\ IF ~r.res.ok
     THEN Fail(r.res.err, at) /\ pos' = pos
     ELSE /\ error' = error
          /\ IF pos < len
             THEN pc' = pc /\ pos' = pos + 1
             ELSE pc' = after /\ pos' = 1
  /\ UNCHANGED << decoderVars, ball_actor_id, linkVars, replay_data, frame, index >>

DeleteActor ==
  /\ pc = "delete_actor"
  /\ StoreStep(delete_actor(actor_state, frame.deleted_actors[pos]),
               "delete_actor", Len(frame.deleted_actors), start_spawns(frame))

SpawnActor ==
  /\ pc = "new_actor"
  /\ StoreStep(new_actor(actor_state, frame.new_actors[pos]),
               "new_actor", Len(frame.new_actors), start_updates(frame))

UpdateAttribute ==
  /\ pc = "update_attribute"
  /\ StoreStep(update_attribute(actor_state, frame.updated_actors[pos]),
               "update_attribute", Len(frame.updated_actors),
               "update_player_to_car_mappings")

\* ------------------------------------------------------------------------
\* The rest of the loop body of get_data (clean.rs:258-261)

\* Player actors that an update of this frame names in the player link
\* attribute.
relinked(f) ==
  { f.updated_actors[i].attribute.v :
      i \in { j \in 1..Len(f.updated_actors) :
                /\ f.updated_actors[j].object_id = Oid(PLAYER_REPLICATION_KEY)
                /\ f.updated_actors[j].attribute.tag = "ActiveActor" } }

\* Player actors whose linked car this frame deletes.
car_deleted(f) ==
  { q \in DOMAIN player_actor_to_car_actor :
      Contains(f.deleted_actors, player_actor_to_car_actor[q]) }

LinkStep(r) ==
  /\ player_actor_to_car_actor' = r.L.player_actor_to_car_actor
  /\ player_to_actor_id' = r.L.player_to_actor_id
  /\ car_actor_to_boost_actor' = r.L.car_actor_to_boost_actor
  /\ car_actor_to_dodge_actor' = r.L.car_actor_to_dodge_actor
  /\ car_actor_to_jump_actor' = r.L.car_actor_to_jump_actor
  /\ car_actor_to_double_jump_actor' = r.L.car_actor_to_double_jump_actor
  /\ IF r.res.ok
     THEN pc' = "update_ball_id" /\ error' = error
     ELSE Fail(r.res.err, "update_player_to_car_mappings")

UpdatePlayerToCarMappings ==
  /\ pc = "update_player_to_car_mappings"
  /\ LinkStep(update_player_to_car_mappings(actor_state, LinkMaps, frame))
  /\ car_lost' = (car_lost \cup car_deleted(frame)) \ relinked(frame)
  /\ UNCHANGED << decoderVars, actor_state, ball_actor_id, replay_data, frame, index, pos >>

UpdateBallId ==
  /\ pc = "update_ball_id"
  /\ ball_actor_id' = update_ball_id(actor_state, ball_actor_id, frame)
  /\ pc' = "update_boost_amounts"
  /\ UNCHANGED << decoderVars, actor_state, linkVars, replay_data, frame, index, pos, error >>

BoostStep(r) ==
  /\ actor_state' = r.self
  /\ IF r.res.ok
     THEN pc' = "add_frame_to_replay_data" /\ error' = error
     ELSE Fail(r.res.err, "update_boost_amounts")

UpdateBoostAmounts ==
  /\ pc = "update_boost_amounts"
  /\ BoostStep(update_boost_amounts(actor_state, frame))
  /\ UNCHANGED << decoderVars, ball_actor_id, linkVars, replay_data, frame, index, pos >>

AddFrameStep(r) ==
  /\ replay_data' = r.replay_data
  /\ IF r.res.ok
     THEN pc' = "next_frame" /\ error' = error
     ELSE Fail(r.res.err, r.at)

AddFrameToReplayData ==
  /\ pc = "add_frame_to_replay_data"
  /\ AddFrameStep(add_frame_to_replay_data(actor_state, LinkMaps, ball_actor_id,
                                           replay_data, frame.time))
  /\ UNCHANGED << decoderVars, actor_state, ball_actor_id, linkVars, frame, index, pos >>

Next ==
  \/ NextFrame
  \/ DeleteActor
  \/ SpawnActor
  \/ UpdateAttribute
  \/ UpdatePlayerToCarMappings
  \/ UpdateBallId
  \/ UpdateBoostAmounts
  \/ AddFrameToReplayData
  \/ Finish

Spec == Init /\ [][Next]_vars

\* ------------------------------------------------------------------------
\* The decoders on one bit source

DecodeInit ==
  /\ ReplayProcessor_new
  /\ input \in Inputs
  /\ checked = NotRun
  /\ unchecked = NotRun
  /\ legacy = NotRun

VectorDecode ==
  /\ checked = NotRun
  /\ \E net_version \in NetVersions :
       checked' = Call("Vector", "None", net_version,
                       Vector_decode(BitGet_new(input, 0), net_version))
  /\ UNCHANGED << input, unchecked, legacy, replayVars >>

RotationDecode ==
  /\ checked = NotRun
  /\ checked' = Call("Rotation", "None", OldNetVersion,
                     Rotation_decode(BitGet_new(input, 0)))
  /\ UNCHANGED << input, unchecked, legacy, replayVars >>

TrajectoryFromSpawn ==
  /\ checked = NotRun
  /\ \E sp \in SpawnTrajectory, net_version \in NetVersions :
       checked' = Call("Trajectory", sp, net_version,
                       Trajectory_from_spawn(BitGet_new(input, 0), sp, net_version))
  /\ UNCHANGED << input, unchecked, legacy, replayVars >>

VectorDecodeUnchecked ==
  /\ checked # NotRun
  /\ checked.fn = "Vector"
  /\ unchecked = NotRun
  /\ \E beyond \in Beyond :
       unchecked' =
         UncheckedCall("Vector", "None", checked.net_version,
                       Vector_decode_unchecked(BitGet_new(input, beyond_bit(beyond)),
                                               checked.net_version),
                       beyond)
  /\ UNCHANGED << input, checked, legacy, replayVars >>

RotationDecodeUnchecked ==
  /\ checked # NotRun
  /\ checked.fn = "Rotation"
  /\ unchecked = NotRun
  /\ \E beyond \in Beyond :
       unchecked' =
         UncheckedCall("Rotation", "None", checked.net_version,
                       Rotation_decode_unchecked(BitGet_new(input, beyond_bit(beyond))),
                       beyond)
  /\ UNCHANGED << input, checked, legacy, replayVars >>

TrajectoryFromSpawnUnchecked ==
  /\ checked # NotRun
  /\ checked.fn = "Trajectory"
  /\ unchecked = NotRun
  /\ \E beyond \in Beyond :
       unchecked' =
         UncheckedCall("Trajectory", checked.sp, checked.net_version,
                       Trajectory_from_spawn_unchecked(
                         BitGet_new(input, beyond_bit(beyond)), checked.sp,
                         checked.net_version),
                       beyond)
  /\ UNCHANGED << input, checked, legacy, replayVars >>

\* A call of the decoder of network.rs, which takes no version.
LegacyCall(r) == [fn |-> "LegacyVector", v |-> r.v, pos |-> r.bits.pos]

\* Vector::decode of network.rs on an input the decoder of
\* network/models.rs was called on.
LegacyVectorDecode ==
  /\ checked # NotRun
  /\ checked.fn = "Vector"
  /\ legacy = NotRun
  /\ legacy' = LegacyCall(network_Vector_decode(BitGet_new(input, 0)))
  /\ UNCHANGED << input, checked, unchecked, replayVars >>

DecodeNext ==
  \/ VectorDecode
  \/ RotationDecode
  \/ TrajectoryFromSpawn
  \/ VectorDecodeUnchecked
  \/ RotationDecodeUnchecked
  \/ TrajectoryFromSpawnUnchecked
  \/ LegacyVectorDecode

DecodeSpec == DecodeInit /\ [][DecodeNext]_vars

\* ------------------------------------------------------------------------
\* Properties

\* The frame numbered index has been processed without an error.
FrameDone == pc \in {"next_frame", "done"} /\ index > 0

Last(seq) == seq[Len(seq)]

actor_states == actor_state.actor_states
actor_ids_by_type == actor_state.actor_ids_by_type

\* The places (object type, position) at which the type index lists a.
Listings(a) ==
  UNION { { <<t, i>> : i \in { j \in 1..Len(actor_ids_by_type[t]) :
                                 actor_ids_by_type[t][j] = a } }
          : t \in DOMAIN actor_ids_by_type }

\* C1: in every state, between any two events and after an event that
\* failed, an actor id is listed in the type index iff it has an entry in
\* the state map; it is listed once, and under the object type of its state.
C1_IndexMatchesStates ==
  \A a \in ActorIds :
    /\ (a \in DOMAIN actor_states) <=> (Listings(a) # {})
    /\ Cardinality(Listings(a)) <= 1
    /\ \A e \in Listings(a) : e[1] = actor_states[a].object_id

\* C1 witness: a later frame failed in the store after an actor was deleted
\* (its type is left with an empty list) while other actors are live.
C1_Witness ==
  /\ pc = "failed"
  /\ error.at \in {"delete_actor", "new_actor", "update_attribute"}
  /\ index >= 3
  /\ \E t \in DOMAIN actor_ids_by_type : actor_ids_by_type[t] = << >>
  /\ Cardinality(DOMAIN actor_states) >= 3

\* C2: after n frames have been processed successfully, the ball sequence,
\* the metadata sequence and the sequence of every known player have
\* length n.
C2_TimelineLengths ==
  FrameDone =>
    /\ Len(replay_data.frame_metadata) = index
    /\ Len(replay_data.ball_data.frames) = index
    /\ \A p \in DOMAIN player_to_actor_id :
         /\ p \in DOMAIN replay_data.players
         /\ Len(replay_data.players[p].frames) = index

\* C3: the record an entity receives in frame k is element k of its
\* sequence, and the sequence of a player first emitted in frame k is k - 1
\* Empty records followed by that record.
C3_TimelineAlignment ==
  [][ (pc = "add_frame_to_replay_data" /\ pc' = "next_frame") =>
        /\ Len(replay_data'.ball_data.frames) >= index
        /\ replay_data'.ball_data.frames[index]
             = get_ball_frame(actor_state, ball_actor_id).v
        /\ \A p \in DOMAIN player_to_actor_id :
             /\ Len(replay_data'.players[p].frames) >= index
             /\ replay_data'.players[p].frames[index]
                  = unwrap_or_empty(get_frame_for_player(actor_state, LinkMaps, p))
             /\ p \notin DOMAIN replay_data.players =>
                  /\ Len(replay_data'.players[p].frames) = index
                  /\ \A i \in 1..(index - 1) :
                       replay_data'.players[p].frames[i] = PlayerFrame_Empty
    ]_vars

\* C4: while the car linked to a player's actor has been deleted and no
\* link update for that player actor has arrived since, every record of the
\* player is Empty.
C4_NoRecordFromStaleCar ==
  FrameDone =>
    \A p \in DOMAIN player_to_actor_id :
      player_to_actor_id[p] \in car_lost =>
        Last(replay_data.players[p].frames) = PlayerFrame_Empty

\* The ActorId-keyed relationship maps, as positions in Links.
ActorKeyed == {j \in 1..Len(Links) : Links[j].map # "player_to_actor_id"}

\* Update i of the frame is a link update of relationship j: it names the
\* link attribute, on a live actor of the source object type.
IsLinkUpdate(i, j) ==
  /\ frame.updated_actors[i].object_id = Oid(Links[j].attr)
  /\ frame.updated_actors[i].actor_id \in DOMAIN actor_states
  /\ actor_states[frame.updated_actors[i].actor_id].object_id
       = Oid(Links[j].actor_type)

\* What the link attribute of the updated actor references once the
\* updates of the frame are applied.
Referenced(i, j) ==
  actor_states[frame.updated_actors[i].actor_id]
    .attributes[Oid(Links[j].attr)].v

LinkUpdates(j) == {i \in 1..Len(frame.updated_actors) : IsLinkUpdate(i, j)}

\* C5: after the relationship step of a frame, no ActorId-keyed map holds
\* an entry it held before the frame, unwritten by the frame, whose key is
\* in the delete list of the frame.
C5_SweepAllMaps ==
  [][ (pc = "update_player_to_car_mappings" /\ pc' = "update_ball_id") =>
        \A j \in ActorKeyed :
          \A k \in DOMAIN LinkMaps[Links[j].map] :
            ( /\ Contains(frame.deleted_actors, k)
              /\ \A i \in LinkUpdates(j) : Referenced(i, j) # k )
            => k \notin DOMAIN LinkMaps'[Links[j].map]
    ]_vars

\* C6 as stated: a link update on source actor s whose link attribute
\* references t leaves the entry s -> t in the map of every actor-to-actor
\* relationship, and the entry u -> s in the player map.
C6_SourceToReference ==
  [][ (pc = "update_player_to_car_mappings" /\ pc' = "update_ball_id") =>
        \A j \in 1..Len(Links) : \A i \in LinkUpdates(j) :
          IF j \in ActorKeyed
          THEN /\ frame.updated_actors[i].actor_id \in DOMAIN LinkMaps'[Links[j].map]
               /\ LinkMaps'[Links[j].map][frame.updated_actors[i].actor_id]
                    = Referenced(i, j)
          ELSE /\ Referenced(i, j) \in DOMAIN LinkMaps'[Links[j].map]
               /\ \E i2 \in LinkUpdates(j) :
                    LinkMaps'[Links[j].map][Referenced(i, j)]
                      = frame.updated_actors[i2].actor_id
    ]_vars

\* The last link update of relationship j in the frame that references t.
LastLinkUpdate(j, t) ==
  CHOOSE i \in LinkUpdates(j) :
    /\ Referenced(i, j) = t
    /\ \A i2 \in LinkUpdates(j) : Referenced(i2, j) = t => i2 <= i

\* C6 amended: a link update on source actor s whose link attribute
\* references t (a player id u for the player link) writes the entry
\* t -> s, over any entry t had: after the step the entry of t is the
\* source actor of the last such update of the frame, except that the
\* player-actor -> car entry of a t in the delete list is removed again.
C6_ReferenceToSource ==
  [][ (pc = "update_player_to_car_mappings" /\ pc' = "update_ball_id") =>
        \A j \in 1..Len(Links) : \A i \in LinkUpdates(j) :
          IF /\ Links[j].map = "player_actor_to_car_actor"
             /\ Contains(frame.deleted_actors, Referenced(i, j))
          THEN Referenced(i, j) \notin DOMAIN LinkMaps'[Links[j].map]
          ELSE /\ Referenced(i, j) \in DOMAIN LinkMaps'[Links[j].map]
               /\ LinkMaps'[Links[j].map][Referenced(i, j)]
                    = frame.updated_actors[LastLinkUpdate(j, Referenced(i, j))].actor_id
    ]_vars

\* C6 witness: the boost entry of a car has been overwritten: it names one
\* boost component while another live boost component references the car
\* too; and the player, player-actor and jump maps hold entries.
C6_Witness ==
  /\ pc = "update_ball_id"
  /\ \E t \in DOMAIN car_actor_to_boost_actor :
       \E s \in DOMAIN actor_states :
         /\ s # car_actor_to_boost_actor[t]
         /\ actor_states[s].object_id = Oid(BOOST_TYPE)
         /\ Oid(VEHICLE_KEY) \in DOMAIN actor_states[s].attributes
         /\ actor_states[s].attributes[Oid(VEHICLE_KEY)] = Attribute_ActiveActor(t)
         /\ \E i \in 1..Len(frame.updated_actors) :
              frame.updated_actors[i].actor_id = car_actor_to_boost_actor[t]
  /\ DOMAIN player_to_actor_id # {}
  /\ DOMAIN player_actor_to_car_actor # {}

\* No game-rules actor is live.
NoGameActor ==
  \A a \in DOMAIN actor_states : actor_states[a].object_id # Oid(GAME_TYPE)

\* C7: processing a frame while no game-rules actor is live does not abort
\* the run.
C7_MissingGameActorRecoverable ==
  [][ (pc = "add_frame_to_replay_data" /\ NoGameActor) => pc' # "failed" ]_vars

\* C8: when the tracked ball actor has no rigid-body attribute (and the
\* metadata of the frame is available), the ball record of the frame is
\* Empty and the run goes on.
C8_BallWithoutRigidBodyIsEmpty ==
  [][ ( /\ pc = "add_frame_to_replay_data"
        /\ get_metadata_frame(actor_state, frame.time).ok
        /\ IsSome(ball_actor_id)
        /\ Unwrap(ball_actor_id) \in DOMAIN actor_states
        /\ Oid(RIGID_BODY_STATE_KEY)
             \notin DOMAIN actor_states[Unwrap(ball_actor_id)].attributes )
      => ( /\ pc' = "next_frame"
           /\ Last(replay_data'.ball_data.frames) = BallFrame_Empty )
    ]_vars

\* The player's actor, its car, the car's rigid body, the car's boost
\* component and the derived boost amount of the component all resolve.
Resolved(p) ==
  /\ player_to_actor_id[p] \in DOMAIN player_actor_to_car_actor
  /\ player_actor_to_car_actor[player_to_actor_id[p]] \in DOMAIN actor_states
  /\ Oid(RIGID_BODY_STATE_KEY) \in DOMAIN
       actor_states[player_actor_to_car_actor[player_to_actor_id[p]]].attributes
  /\ actor_states[player_actor_to_car_actor[player_to_actor_id[p]]]
       .attributes[Oid(RIGID_BODY_STATE_KEY)].tag = "RigidBody"
  /\ player_actor_to_car_actor[player_to_actor_id[p]]
       \in DOMAIN car_actor_to_boost_actor
  /\ car_actor_to_boost_actor[player_actor_to_car_actor[player_to_actor_id[p]]]
       \in DOMAIN actor_states
  /\ BOOST_AMOUNT_KEY \in DOMAIN
       actor_states[car_actor_to_boost_actor[
         player_actor_to_car_actor[player_to_actor_id[p]]]].derived_attributes
  /\ actor_states[car_actor_to_boost_actor[
         player_actor_to_car_actor[player_to_actor_id[p]]]]
       .derived_attributes[BOOST_AMOUNT_KEY].tag = "Float"

\* C9: get_player_frames never returns an error, and in every processed
\* frame the record of a known player that does not resolve is Empty.
C9_PlayerFailuresNeverAbort ==
  /\ error.at # "get_player_frames"
  /\ FrameDone =>
       \A p \in DOMAIN player_to_actor_id :
         ~Resolved(p) =>
           /\ p \in DOMAIN replay_data.players
           /\ Last(replay_data.players[p].frames) = PlayerFrame_Empty

\* C9 witness: a processed frame in which a player's car resolves, with its
\* rigid body, but the boost component the car links to is not live; the
\* player had a Data record in an earlier frame.
C9_Witness ==
  /\ FrameDone
  /\ \E p \in DOMAIN player_to_actor_id :
       /\ player_to_actor_id[p] \in DOMAIN player_actor_to_car_actor
       /\ player_actor_to_car_actor[player_to_actor_id[p]] \in DOMAIN actor_states
       /\ player_actor_to_car_actor[player_to_actor_id[p]]
            \in DOMAIN car_actor_to_boost_actor
       /\ car_actor_to_boost_actor[player_actor_to_car_actor[player_to_actor_id[p]]]
            \notin DOMAIN actor_states
       /\ Last(replay_data.players[p].frames) = PlayerFrame_Empty
       /\ \E i \in 1..Len(replay_data.players[p].frames) :
            replay_data.players[p].frames[i].kind = "Data"

\* The spawn get_data applies next names a live actor of the same type.
RespawnSameType ==
  /\ pc = "new_actor"
  /\ frame.new_actors[pos].actor_id \in DOMAIN actor_states
  /\ actor_states[frame.new_actors[pos].actor_id].object_id
       = frame.new_actors[pos].object_id

\* C10: spawning an actor id that is live with the same object type
\* succeeds and leaves the state map and the type index as they were.
C10_RespawnSameTypeIsNoOp ==
  [][ RespawnSameType => (actor_state' = actor_state /\ pc' # "failed") ]_vars

\* C10 witness: the spawn pass of a frame that spawned one actor is over,
\* and the actor still has the attributes and the name id, different from
\* the spawn's, that it had before.
C10_Witness ==
  /\ pc = "update_player_to_car_mappings"
  /\ Len(frame.deleted_actors) = 0
  /\ Len(frame.new_actors) = 1
  /\ Len(frame.updated_actors) = 0
  /\ frame.new_actors[1].actor_id \in DOMAIN actor_states
  /\ actor_states[frame.new_actors[1].actor_id].name_id
       # frame.new_actors[1].name_id
  /\ DOMAIN actor_states[frame.new_actors[1].actor_id].attributes # {}

\* The spawn get_data applies next names an actor that is live under
\* another object type.
SpawnConflict ==
  /\ pc = "new_actor"
  /\ frame.new_actors[pos].actor_id \in DOMAIN actor_states
  /\ actor_states[frame.new_actors[pos].actor_id].object_id
       # frame.new_actors[pos].object_id

\* C11: spawning an actor id that is live under a different object type
\* fails with a Conflict error and leaves the state map and the type index
\* as they were.
C11_SpawnConflictFails ==
  [][ SpawnConflict =>
        /\ pc' = "failed"
        /\ error' = [kind |-> "Conflict", at |-> "new_actor"]
        /\ actor_state' = actor_state
    ]_vars

\* C11 witness: the run has stopped on a Conflict; the actor the spawn named
\* is still live under its own type and still holds its attributes.
C11_Witness ==
  /\ pc = "failed"
  /\ error = [kind |-> "Conflict", at |-> "new_actor"]
  /\ frame.new_actors[pos].actor_id \in DOMAIN actor_states
  /\ actor_states[frame.new_actors[pos].actor_id].object_id
       # frame.new_actors[pos].object_id
  /\ DOMAIN actor_states[frame.new_actors[pos].actor_id].attributes # {}
  /\ Listings(frame.new_actors[pos].actor_id) # {}

\* The step applies a spawn that names actor a.
Spawns(a) == pc = "new_actor" /\ frame.new_actors[pos].actor_id = a

\* C12: a successful delete of actor a leaves a absent from the state map
\* and from the list of live actor ids of its former type; an actor absent
\* from the state map stays absent until a spawn names it, and until then an
\* update or a delete of it returns NotFound.
C12_DeletedActorIsGone ==
  [][ /\ ( pc = "delete_actor" /\ pc' # "failed" ) =>
           /\ frame.deleted_actors[pos] \in DOMAIN actor_states
           /\ frame.deleted_actors[pos] \notin DOMAIN actor_states'
           /\ ~Contains(get_actor_ids_by_object_id(
                          actor_state',
                          actor_states[frame.deleted_actors[pos]].object_id),
                        frame.deleted_actors[pos])
      /\ \A a \in ActorIds \ DOMAIN actor_states :
           /\ ~Spawns(a) => a \notin DOMAIN actor_states'
           /\ delete_actor(actor_state, a).res = Err("NotFound")
           /\ \A k \in ObjectIds :
                update_attribute(actor_state,
                                 [actor_id |-> a, object_id |-> k,
                                  attribute |-> Attribute_Byte(0)]).res
                  = Err("NotFound")
    ]_vars

\* C12 witness: a delete has just failed on an actor id that a relationship
\* map still names as a car, so the actor was live and has been deleted.
C12_Witness ==
  /\ pc = "failed"
  /\ error = [kind |-> "NotFound", at |-> "delete_actor"]
  /\ \E q \in DOMAIN player_actor_to_car_actor :
       player_actor_to_car_actor[q] = frame.deleted_actors[pos]
  /\ get_actor_ids_by_object_id(actor_state, Oid(CAR_TYPE)) = << >>
  /\ Oid(CAR_TYPE) \in DOMAIN actor_ids_by_type

\* The actor id the update or delete applied next refers to.
Target ==
  IF pc = "update_attribute" THEN frame.updated_actors[pos].actor_id
  ELSE frame.deleted_actors[pos]

\* C13: an update or a delete that names an actor id with no live state
\* fails with NotFound and leaves the state map and the type index as they
\* were.
C13_UnknownActorNotFound ==
  [][ ( /\ pc \in {"update_attribute", "delete_actor"}
        /\ Target \notin DOMAIN actor_states ) =>
        /\ pc' = "failed"
        /\ error' = [kind |-> "NotFound", at |-> pc]
        /\ actor_state' = actor_state
    ]_vars

\* C13 witness: the run has stopped on an update of an actor that is not
\* live, while other actors are, with their attributes.
C13_Witness ==
  /\ pc = "failed"
  /\ error = [kind |-> "NotFound", at |-> "update_attribute"]
  /\ frame.updated_actors[pos].actor_id \notin DOMAIN actor_states
  /\ Listings(frame.updated_actors[pos].actor_id) = {}
  /\ \E a \in DOMAIN actor_states : DOMAIN actor_states[a].attributes # {}

\* What update u changes in the store S, given the store T after it: the
\* attribute of the actor holds the value of u, and every other attribute,
\* every other field, every other actor and the type index are as in S.
StoresOnly(S, T, u) ==
  /\ DOMAIN T.actor_states = DOMAIN S.actor_states
  /\ T.actor_ids_by_type = S.actor_ids_by_type
  /\ \A b \in DOMAIN S.actor_states \ {u.actor_id} :
       T.actor_states[b] = S.actor_states[b]
  /\ T.actor_states[u.actor_id].derived_attributes
       = S.actor_states[u.actor_id].derived_attributes
  /\ T.actor_states[u.actor_id].object_id = S.actor_states[u.actor_id].object_id
  /\ T.actor_states[u.actor_id].name_id = S.actor_states[u.actor_id].name_id
  /\ DOMAIN T.actor_states[u.actor_id].attributes
       = DOMAIN S.actor_states[u.actor_id].attributes \cup {u.object_id}
  /\ T.actor_states[u.actor_id].attributes[u.object_id] = u.attribute
  /\ \A k \in DOMAIN S.actor_states[u.actor_id].attributes \ {u.object_id} :
       T.actor_states[u.actor_id].attributes[k]
         = S.actor_states[u.actor_id].attributes[k]

\* The value stored for the attribute of update u before the update.
PreviousValue(S, u) ==
  IF u.object_id \in DOMAIN S.actor_states[u.actor_id].attributes
  THEN Some(S.actor_states[u.actor_id].attributes[u.object_id])
  ELSE None

\* Update i is the last update of the frame on its actor and attribute.
LastWrite(i) ==
  \A j \in (i + 1)..Len(frame.updated_actors) :
    \/ frame.updated_actors[j].actor_id # frame.updated_actors[i].actor_id
    \/ frame.updated_actors[j].object_id # frame.updated_actors[i].object_id

\* C14: an update on a live actor succeeds, stores its value as the value of
\* that attribute, returns the value stored before (if any) and changes no
\* other attribute, no other actor and not the type index; when the update
\* pass of a frame ends, each updated attribute holds the value of the last
\* update of the frame that names it.
C14_UpdateStoresLastValue ==
  [][ ( /\ pc = "update_attribute"
        /\ frame.updated_actors[pos].actor_id \in DOMAIN actor_states ) =>
        /\ pc' # "failed"
        /\ StoresOnly(actor_state, actor_state', frame.updated_actors[pos])
        /\ update_attribute(actor_state, frame.updated_actors[pos]).res
             = Ok(PreviousValue(actor_state, frame.updated_actors[pos]))
        /\ pc' = "update_player_to_car_mappings" =>
             \A i \in 1..Len(frame.updated_actors) :
               LastWrite(i) =>
                 actor_states'[frame.updated_actors[i].actor_id]
                   .attributes[frame.updated_actors[i].object_id]
                   = frame.updated_actors[i].attribute
    ]_vars

\* C14 witness: the update pass of a frame is over in which two updates
\* gave different values to one attribute of one actor; the attribute holds
\* the second value.
C14_Witness ==
  /\ pc = "update_player_to_car_mappings"
  /\ \E i, j \in 1..Len(frame.updated_actors) :
       /\ i < j
       /\ frame.updated_actors[i].actor_id = frame.updated_actors[j].actor_id
       /\ frame.updated_actors[i].object_id = frame.updated_actors[j].object_id
       /\ frame.updated_actors[i].attribute # frame.updated_actors[j].attribute
       /\ actor_states[frame.updated_actors[j].actor_id]
            .attributes[frame.updated_actors[j].object_id]
            = frame.updated_actors[j].attribute

\* The spawn applied next names an actor id of the delete list of the
\* frame, for the first time in the spawn list.
Respawn ==
  /\ pc = "new_actor"
  /\ Contains(frame.deleted_actors, frame.new_actors[pos].actor_id)
  /\ \A i \in 1..(pos - 1) :
       frame.new_actors[i].actor_id # frame.new_actors[pos].actor_id

\* C15: a spawn of an actor id that the same frame deleted succeeds,
\* whether the object type is the one the id had or another: the actor is
\* then live with the state of a new actor of the spawn's type, without
\* attributes, and is listed once, under that type only.
C15_DeleteThenRespawn ==
  [][ Respawn =>
        /\ pc' # "failed"
        /\ frame.new_actors[pos].actor_id \in DOMAIN actor_states'
        /\ actor_states'[frame.new_actors[pos].actor_id]
             = ActorState_new(frame.new_actors[pos])
        /\ Cardinality(Listings(frame.new_actors[pos].actor_id)') = 1
        /\ \A e \in Listings(frame.new_actors[pos].actor_id)' :
             e[1] = frame.new_actors[pos].object_id
    ]_vars

\* C15 witness: the spawn pass of a frame has just respawned, as a ball, the
\* id of the car the frame deleted; the actor has no attribute, and the
\* type index keeps an empty list for cars.
C15_Witness ==
  /\ pc = "update_attribute"
  /\ pos = 1
  /\ \E q \in DOMAIN player_actor_to_car_actor :
       /\ Contains(frame.deleted_actors, player_actor_to_car_actor[q])
       /\ player_actor_to_car_actor[q] \in DOMAIN actor_states
       /\ actor_states[player_actor_to_car_actor[q]].object_id # Oid(CAR_TYPE)
       /\ actor_states[player_actor_to_car_actor[q]].attributes = EmptyMap
       /\ Cardinality(Listings(player_actor_to_car_actor[q])) = 1
  /\ Oid(CAR_TYPE) \in DOMAIN actor_ids_by_type
  /\ actor_ids_by_type[Oid(CAR_TYPE)] = << >>

\* The actor ids of the spawn list of the frame.
SpawnedIds == {frame.new_actors[i].actor_id : i \in 1..Len(frame.new_actors)}

\* The actor ids the first n spawns of the frame name.
SpawnedBefore(n) == {frame.new_actors[i].actor_id : i \in 1..(n - 1)}

\* C16: within a frame all deletes are applied before the first spawn and
\* all spawns before the first update: during the spawn pass no id of the
\* delete list is live unless a spawn already applied names it, and the
\* passes never run backwards; an update of an actor the frame spawned
\* succeeds, and an update of an actor the frame deleted and did not spawn
\* fails with NotFound.
C16_DeletesSpawnsUpdates ==
  [][ /\ pc = "new_actor" =>
           /\ \A a \in Range(frame.deleted_actors) \ SpawnedBefore(pos) :
                a \notin DOMAIN actor_states
           /\ pc' # "delete_actor"
      /\ pc = "update_attribute" =>
           /\ SpawnedIds \subseteq DOMAIN actor_states
           /\ \A a \in Range(frame.deleted_actors) \ SpawnedIds :
                a \notin DOMAIN actor_states
           /\ pc' \notin {"delete_actor", "new_actor"}
           /\ frame.updated_actors[pos].actor_id \in SpawnedIds =>
                pc' # "failed"
           /\ frame.updated_actors[pos].actor_id
                \in Range(frame.deleted_actors) \ SpawnedIds =>
                /\ pc' = "failed"
                /\ error' = [kind |-> "NotFound", at |-> "update_attribute"]
      /\ pc = "next_frame" =>
           pc' \in {"next_frame", "done", start_deletes(frame')}
    ]_vars

\* C16 witness: the run has stopped on the update of the ball that the
\* delete pass of the same frame removed; the ball slot, which is read
\* later in the frame, still names it.
C16_Witness ==
  /\ pc = "failed"
  /\ error = [kind |-> "NotFound", at |-> "update_attribute"]
  /\ Contains(frame.deleted_actors, frame.updated_actors[pos].actor_id)
  /\ ball_actor_id = Some(frame.updated_actors[pos].actor_id)
  /\ Len(replay_data.frame_metadata) >= 1

\* C17: the ball slot changes in update_ball_id only; when it holds actor
\* id x before the call, it is empty after the call if x is in the delete
\* list of the frame and still holds x otherwise, so it never goes from x
\* to another actor id.
C17_BallSlotClearing ==
  [][ /\ pc # "update_ball_id" => ball_actor_id' = ball_actor_id
      /\ ( pc = "update_ball_id" /\ IsSome(ball_actor_id) ) =>
           /\ ball_actor_id' \in {None, ball_actor_id}
           /\ ball_actor_id' = None
                <=> Contains(frame.deleted_actors, Unwrap(ball_actor_id))
    ]_vars

\* C17 witness: update_ball_id has emptied the slot in a frame with a
\* delete list; the ball record of the frame before is a Data record, so the
\* slot held an actor id when the frame began.
C17_Witness ==
  /\ pc = "update_boost_amounts"
  /\ ball_actor_id = None
  /\ Len(frame.deleted_actors) > 0
  /\ Len(replay_data.ball_data.frames) > 0
  /\ Last(replay_data.ball_data.frames).kind = "Data"

\* The live actors of the boost component type.
BoostActors ==
  {b \in DOMAIN actor_states : actor_states[b].object_id = Oid(BOOST_TYPE)}

\* The byte stored under attribute key of actor b, 0 when there is none.
ByteOf(b, key) ==
  IF /\ Oid(key) \in DOMAIN actor_states[b].attributes
     /\ actor_states[b].attributes[Oid(key)].tag = "Byte"
  THEN actor_states[b].attributes[Oid(key)].v
  ELSE 0

RawByte(b) == ByteOf(b, BOOST_AMOUNT_KEY)

ActiveFlag(b) == ByteOf(b, COMPONENT_ACTIVE_KEY)

\* An earlier frame has stored a last sample and a derived amount for b.
HasDerived(b) ==
  /\ LAST_BOOST_AMOUNT_KEY \in DOMAIN actor_states[b].derived_attributes
  /\ BOOST_AMOUNT_KEY \in DOMAIN actor_states[b].derived_attributes

LastSample(b) == actor_states[b].derived_attributes[LAST_BOOST_AMOUNT_KEY].v

Derived(b) == actor_states[b].derived_attributes[BOOST_AMOUNT_KEY].v

\* max(0, x - delta * 80 / 0.93), as a numerator over FloatDen
Drained(x) ==
  IF x - frame.delta * BoostUsedNum > 0 THEN x - frame.delta * BoostUsedNum
  ELSE 0

\* C18: in update_boost_amounts, for a live boost actor whose raw byte
\* equals the last sample the frame before stored, the derived amount
\* becomes max(0, previous - delta * 80 / 0.93), which is not above the
\* previous amount, when the active flag is odd, and stays the previous
\* amount when the flag is even.
C18_BoostBetweenSamples ==
  [][ ( pc = "update_boost_amounts" /\ pc' # "failed" ) =>
        \A b \in BoostActors :
          ( HasDerived(b) /\ RawByte(b) = LastSample(b) ) =>
            /\ Derived(b)' = IF ActiveFlag(b) % 2 = 1 THEN Drained(Derived(b))
                             ELSE Derived(b)
            /\ Derived(b)' <= Derived(b)
    ]_vars

\* C18 witness: a frame without updates has drained an active boost
\* component between samples, and the amount left is positive.
C18_Witness ==
  /\ pc = "add_frame_to_replay_data"
  /\ Len(frame.updated_actors) = 0
  /\ frame.delta > 0
  /\ \E b \in BoostActors :
       /\ HasDerived(b)
       /\ ActiveFlag(b) % 2 = 1
       /\ Derived(b) > 0
       /\ Derived(b) + frame.delta * BoostUsedNum < RawByte(b) * FloatDen

\* C19: in update_boost_amounts, for a live boost actor whose raw byte
\* differs from the last sample the frame before stored, the derived amount
\* becomes the byte when the active flag is even and
\* max(0, byte - delta * 80 / 0.93) when it is odd, whatever the derived
\* amount was.
C19_BoostSnap ==
  [][ ( pc = "update_boost_amounts" /\ pc' # "failed" ) =>
        \A b \in BoostActors :
          ( HasDerived(b) /\ RawByte(b) # LastSample(b) ) =>
            Derived(b)' = IF ActiveFlag(b) % 2 = 1
                          THEN Drained(RawByte(b) * FloatDen)
                          ELSE RawByte(b) * FloatDen
    ]_vars

\* C19 witness: a frame has given an active boost component a new raw
\* byte, above every amount it can have held, and the derived amount is the
\* byte less what the frame used.
C19_Witness ==
  /\ pc = "add_frame_to_replay_data"
  /\ frame.delta > 0
  /\ \E b \in BoostActors :
       /\ \E i \in 1..Len(frame.updated_actors) :
            /\ frame.updated_actors[i].actor_id = b
            /\ frame.updated_actors[i].object_id = Oid(BOOST_AMOUNT_KEY)
            /\ frame.updated_actors[i].attribute = Attribute_Byte(U8Max)
       /\ ActiveFlag(b) % 2 = 1
       /\ HasDerived(b)
       /\ LastSample(b) = U8Max
       /\ Derived(b) = U8Max * FloatDen - frame.delta * BoostUsedNum

\* C20: after every processed frame, every live actor of the boost
\* component type, updated by the frame or not, has a stored derived amount
\* that is a Float >= 0 and a stored last sample that is a Byte equal to its
\* raw byte (0 when it has none).
C20_BoostStoredForAll ==
  FrameDone =>
    \A b \in BoostActors :
      /\ HasDerived(b)
      /\ actor_states[b].derived_attributes[BOOST_AMOUNT_KEY].tag = "Float"
      /\ Derived(b) >= 0
      /\ actor_states[b].derived_attributes[LAST_BOOST_AMOUNT_KEY].tag = "Byte"
      /\ LastSample(b) = RawByte(b)

\* C20 witness: a processed frame without updates after which one boost
\* actor has no attribute at all and holds the last sample 0, and another
\* has a positive raw byte and holds it as its last sample.
C20_Witness ==
  /\ FrameDone
  /\ Len(frame.updated_actors) = 0
  /\ \E b \in BoostActors :
       /\ actor_states[b].attributes = EmptyMap
       /\ HasDerived(b)
       /\ LastSample(b) = 0
       /\ Derived(b) = 0
  /\ \E b \in BoostActors :
       /\ RawByte(b) > 0
       /\ HasDerived(b)
       /\ LastSample(b) = RawByte(b)


\* ------------------------------------------------------------------------
\* Primitive decoders

\* Both decoders were called on the input.
BothRan == checked # NotRun /\ unchecked # NotRun

\* The checked decoder returned Some.
Succeeded == checked # NotRun /\ IsSome(checked.v)

\* C21: whenever the checked decoder of a Vector, a Rotation or a Trajectory
\* succeeds on an input, the unchecked decoder called on the same input with
\* the same arguments returns the same value and leaves the cursor at the
\* same position.
C21_UncheckedAgreesWithChecked ==
  (BothRan /\ Succeeded) =>
    /\ ~unchecked.aborted
    /\ unchecked.v = Unwrap(checked.v)
    /\ unchecked.pos = checked.pos

\* Both decoders read a location and a rotation with a component.
C21_Witness ==
  /\ BothRan
  /\ Succeeded
  /\ checked.fn = "Trajectory"
  /\ checked.sp = "LocationAndRotation"
  /\ IsSome(unchecked.v.rotation[1].pitch)
  /\ unchecked.v.location[1].dx # unchecked.v.location[1].dy


\* The read of the size selector at the start of the input, under the
\* network version of the checked call.
Selector ==
  read_bits_max_computed(BitGet_new(input, 0), SizeSelectorBits,
                         max_size_bits(checked.net_version))

\* The k-th field of n bits after the selector, as an unsigned number.
Field(k, n) == le_value(BitGet_new(input, 0), Selector.bits.pos + k * n, n)

\* The bytes of test_decode_vector and the vector it expects.
TestVectorBytes == <<6, 8, 216, 13>>
TestVector == Vector(128, 128, 128, 221)

\* C22: a successful Vector decode whose selector reads the value s returns
\* the bias 2^(s+1) and, as dx, dy and dz, the next three unsigned fields of
\* s+2 bits in that order, and it consumes the bits of the selector and
\* 3*(s+2) bits more; the bytes 06 08 D8 0D decode at version 5 to the bias
\* 128 and the axes 128, 128, 221.
C22_VectorLayout ==
  (Succeeded /\ checked.fn = "Vector") =>
    /\ IsSome(Selector.v)
    /\ Unwrap(checked.v).bias = 2 ^ (Unwrap(Selector.v) + 1)
    /\ Unwrap(checked.v).dx = Field(0, Unwrap(Selector.v) + 2)
    /\ Unwrap(checked.v).dy = Field(1, Unwrap(Selector.v) + 2)
    /\ Unwrap(checked.v).dz = Field(2, Unwrap(Selector.v) + 2)
    /\ checked.pos = Selector.bits.pos + 3 * (Unwrap(Selector.v) + 2)
    /\ (input = bits_of(TestVectorBytes) /\ checked.net_version = OldNetVersion)
         => Unwrap(checked.v) = TestVector

\* The bytes of the test were decoded at version 5.
C22_Witness ==
  /\ Succeeded
  /\ checked.fn = "Vector"
  /\ input = bits_of(TestVectorBytes)
  /\ checked.net_version = OldNetVersion


\* The bit of the input at position i, counted from 1.
InputBit(i) == bit_at(BitGet_new(input, 0), i)

\* The signed value of the eight bits after position from.
Signed8(from) == as_i8(le_value(BitGet_new(input, 0), from, ByteBits))

\* What a component is when its flag is the bit at position at: the value
\* of the eight bits after the flag, or absent.
Component(at) == IF InputBit(at) = 1 THEN Some(Signed8(at)) ELSE None

\* Position of the flag that follows the component whose flag is at `at`.
NextFlag(at) == at + 1 + ByteBits * InputBit(at)

\* The bytes of test_decode_rotation and the rotation it expects.
TestRotationBytes == <<5, 0>>
TestRotation == Rotation(Some(2), None, None)

\* C23: a successful Rotation decode has read three presence flags, of the
\* yaw, the pitch and the roll in that order, each followed by a signed value
\* of eight bits exactly when the flag is 1.  A component is present exactly
\* when its flag is 1, so no flag set gives three absent components and one
\* flag set gives that component alone; an absent component is None, which
\* differs from a present 0; 3 + 8 * (number of present components) bits
\* are consumed.
C23_RotationLayout ==
  (Succeeded /\ checked.fn = "Rotation") =>
    /\ Unwrap(checked.v).yaw = Component(1)
    /\ Unwrap(checked.v).pitch = Component(NextFlag(1))
    /\ Unwrap(checked.v).roll = Component(NextFlag(NextFlag(1)))
    /\ checked.pos =
         3 + ByteBits * Cardinality({c \in {"yaw", "pitch", "roll"} :
                                       IsSome(Unwrap(checked.v)[c])})
    /\ input = bits_of(TestRotationBytes) => Unwrap(checked.v) = TestRotation

\* Only the flag of the roll is set, and the roll read is 0.
C23_Witness ==
  /\ Succeeded
  /\ checked.fn = "Rotation"
  /\ Unwrap(checked.v) = Rotation(None, None, Some(0))


\* The Vector at the start of the input and the Rotation after it, decoded
\* under the network version of the checked call.
LocationRead == Vector_decode(BitGet_new(input, 0), checked.net_version)
RotationRead == Rotation_decode(LocationRead.bits)

\* C24: the trajectory decoded has the requested shape.  Shape None always
\* succeeds, with no location, no rotation and the cursor where it was;
\* shape Location gives the Vector decoded as location and no rotation, and
\* fails when the Vector fails; shape LocationAndRotation gives the Vector
\* and the Rotation after it, and fails when either fails, so it never
\* returns a location without a rotation.
C24_TrajectoryShape ==
  (checked # NotRun /\ checked.fn = "Trajectory") =>
    /\ checked.sp = "None" =>
         /\ checked.v = Some(Trajectory(None, None))
         /\ checked.pos = 0
    /\ checked.sp = "Location" =>
         /\ IsSome(checked.v) <=> IsSome(LocationRead.v)
         /\ IsSome(checked.v) =>
              /\ Unwrap(checked.v) = Trajectory(LocationRead.v, None)
              /\ checked.pos = LocationRead.bits.pos
    /\ checked.sp = "LocationAndRotation" =>
         /\ IsSome(checked.v) <=>
              (IsSome(LocationRead.v) /\ IsSome(RotationRead.v))
         /\ IsSome(checked.v) =>
              /\ Unwrap(checked.v) = Trajectory(LocationRead.v, RotationRead.v)
              /\ IsSome(Unwrap(checked.v).location)
              /\ IsSome(Unwrap(checked.v).rotation)
              /\ checked.pos = RotationRead.bits.pos

\* A location and a rotation were requested; the input holds the Vector
\* and ends inside the Rotation.
C24_Witness ==
  /\ checked # NotRun
  /\ checked.fn = "Trajectory"
  /\ checked.sp = "LocationAndRotation"
  /\ IsSome(LocationRead.v)
  /\ ~IsSome(RotationRead.v)
  /\ ~IsSome(checked.v)


\* C25: the checked Vector and Rotation decoders fail exactly when the
\* input holds fewer bits than the decode reads, wherever the input ends
\* (in the selector, an axis, a flag or a component): the bits the decode
\* reads are those the unchecked decoder consumes.  A value returned is
\* built from bits of the input only: the cursor is not past its end.
C25_FailsExactlyWhenExhausted ==
  (BothRan /\ checked.fn \in {"Vector", "Rotation"}) =>
    /\ ~IsSome(checked.v) <=> unchecked.pos > Len(input)
    /\ IsSome(checked.v) => checked.pos <= Len(input)

\* The input holds the selector of a Vector and ends inside an axis.
C25_Witness ==
  /\ BothRan
  /\ checked.fn = "Vector"
  /\ IsSome(Selector.v)
  /\ Len(input) > Selector.bits.pos + Unwrap(Selector.v) + 2
  /\ ~IsSome(checked.v)
  /\ unchecked.pos > Len(input)


\* ------------------------------------------------------------------------
\* Fatal store failures, ball slot, link entries, first boost observation

\* The positions of get_data inside process_frame.
StorePcs == {"delete_actor", "new_actor", "update_attribute"}

\* What the call process_frame makes next returns.
StoreCall ==
  CASE pc = "delete_actor" ->
         delete_actor(actor_state, frame.deleted_actors[pos])
    [] pc = "new_actor" -> new_actor(actor_state, frame.new_actors[pos])
    [] pc = "update_attribute" ->
         update_attribute(actor_state, frame.updated_actors[pos])

\* C26: when a call of the actor-store step of frame i fails (Conflict or
\* NotFound), get_data returns that error; the ball, metadata and player
\* sequences are left as the frames before i left them (the metadata
\* sequence holds i - 1 records); and nothing is processed after the
\* failure.
C26_StoreFailureIsFatal ==
  [][ /\ pc # "failed"
      /\ pc \in StorePcs => replay_data' = replay_data
      /\ (pc \in StorePcs /\ ~StoreCall.res.ok) =>
           /\ pc' = "failed"
           /\ error' = [kind |-> StoreCall.res.err, at |-> pc]
           /\ error'.kind \in {"Conflict", "NotFound"}
           /\ Len(replay_data'.frame_metadata) = index - 1
           /\ index' = index
    ]_vars

\* The store step of the second or a later frame failed while frames
\* remained; the sequences hold the records of the frames before it.
C26_Witness ==
  /\ pc = "failed"
  /\ error.at \in StorePcs
  /\ index > 1
  /\ index < MaxFrames
  /\ Len(replay_data.frame_metadata) = index - 1
  /\ DOMAIN replay_data.players # {}


\* The live actors whose object type is one of BALL_TYPES.
LiveBalls ==
  { a \in DOMAIN actor_states :
      \E t \in 1..Len(BALL_TYPES) :
        name_to_object_id(BALL_TYPES[t]) = Some(actor_states[a].object_id) }

\* The ball-tracking step of the frame has run: the rest of the frame, or
\* its end.
BallTracked ==
  pc \in {"update_boost_amounts", "add_frame_to_replay_data"} \/ FrameDone

\* C27: from the ball-tracking step of a frame on, and so at the end of
\* every frame processed successfully, an actor id held by the ball slot is
\* the id of a live actor whose object type is one of the candidate ball
\* types.
C27_BallSlotValid ==
  BallTracked => (IsSome(ball_actor_id) => Unwrap(ball_actor_id) \in LiveBalls)

\* The slot still holds the ball after a frame that deleted other actors.
C27_Witness ==
  /\ FrameDone
  /\ IsSome(ball_actor_id)
  /\ Unwrap(ball_actor_id) \in LiveBalls
  /\ Len(frame.deleted_actors) > 0

\* C28: when the ball slot is empty as update_ball_id runs and, the events
\* of the frame applied, a live actor of a candidate ball type exists, the
\* slot holds the id of a live actor of a ball type at the end of the frame.
C28_BallAcquired ==
  [][ (pc = "update_ball_id" /\ ball_actor_id = None /\ LiveBalls # {}) =>
        /\ IsSome(ball_actor_id')
        /\ Unwrap(ball_actor_id') \in LiveBalls
    ]_vars


\* C29: an entry written by a matching link update of a frame, under a key
\* that is no actor id or the id of an actor live once the events of the
\* frame are applied (never deleted by the frame, or deleted and spawned
\* again within it), is in its map at the end of the relationship step, and
\* so at the end of the frame: it maps the key to the source actor of the
\* last such update.
C29_LinkEntryPresent ==
  [][ (pc = "update_player_to_car_mappings" /\ pc' = "update_ball_id") =>
        \A j \in 1..Len(Links) : \A i \in LinkUpdates(j) :
          (j \in ActorKeyed => Referenced(i, j) \in DOMAIN actor_states) =>
            /\ Referenced(i, j) \in DOMAIN LinkMaps'[Links[j].map]
            /\ LinkMaps'[Links[j].map][Referenced(i, j)]
                 = frame.updated_actors[LastLinkUpdate(j, Referenced(i, j))].actor_id
    ]_vars


\* C30: in the first frame in which update_boost_amounts computes the
\* derived state of a boost actor, when the actor carries the raw byte b
\* and its active flag is even, the derived amount stored is b.
C30_FirstBoostObservation ==
  [][ ( pc = "update_boost_amounts" /\ pc' # "failed" ) =>
        \A b \in BoostActors :
          ( /\ BOOST_AMOUNT_KEY \notin DOMAIN actor_states[b].derived_attributes
            /\ Oid(BOOST_AMOUNT_KEY) \in DOMAIN actor_states[b].attributes
            /\ ActiveFlag(b) % 2 = 0 )
          => Derived(b)' = f32_from_u8(RawByte(b))
    ]_vars


\* ------------------------------------------------------------------------
\* Source type of a link update, padding, vector widths, legacy decoder

\* The updates of the frame that name the link attribute of relationship j
\* on an actor of another object type than its source type.
OtherTypeUpdates(j) ==
  { i \in 1..Len(frame.updated_actors) :
      /\ frame.updated_actors[i].object_id = Oid(Links[j].attr)
      /\ ~IsLinkUpdate(i, j) }

\* The map without the entries whose key the frame deletes.
Swept(map) == [k \in DOMAIN map \ Range(frame.deleted_actors) |-> map[k]]

\* C31: a link-attribute update writes to the map of a relationship only
\* when the updated actor is registered under the source object type of the
\* relationship.  When every update of the link attribute in the frame is on
\* an actor of another type, the relationship step leaves the map as it
\* was (the player-actor -> car map less the keys in the delete list).
C31_OtherTypeLeavesMap ==
  [][ (pc = "update_player_to_car_mappings" /\ pc' = "update_ball_id") =>
        \A j \in 1..Len(Links) :
          LinkUpdates(j) = {} =>
            LinkMaps'[Links[j].map] =
              IF Links[j].map = "player_actor_to_car_actor"
              THEN Swept(LinkMaps[Links[j].map])
              ELSE LinkMaps[Links[j].map]
    ]_vars

\* The vehicle link was updated on a dodge component: the dodge map holds
\* the component under the car it names and the boost map holds nothing
\* for that car.
C31_Witness ==
  /\ pc = "update_ball_id"
  /\ \E i \in 1..Len(frame.updated_actors) :
       /\ frame.updated_actors[i].object_id = Oid(VEHICLE_KEY)
       /\ frame.updated_actors[i].actor_id \in DOMAIN actor_states
       /\ actor_states[frame.updated_actors[i].actor_id].object_id = Oid(DODGE_TYPE)
       /\ frame.updated_actors[i].attribute.v \in DOMAIN car_actor_to_dodge_actor
       /\ car_actor_to_dodge_actor[frame.updated_actors[i].attribute.v]
            = frame.updated_actors[i].actor_id
       /\ frame.updated_actors[i].attribute.v \notin DOMAIN car_actor_to_boost_actor
       /\ \E j \in 1..Len(Links) :
            /\ Links[j].map = "car_actor_to_boost_actor"
            /\ i \in OtherTypeUpdates(j)


\* The frame number ReplayData::add_frame passes on: the length of the
\* metadata sequence after its push.
FrameNumber == Len(replay_data.frame_metadata) + 1

\* C32: at every call of BallData::add_frame and PlayerData::add_frame the
\* frame number is at least the length of the sequence the call extends, so
\* frame_number - self.frames.len() does not underflow.  The calls of a
\* frame are those of ReplayData::add_frame: one on the ball sequence and
\* one on the sequence of every player of player_to_actor_id.
C32_PaddingNeverUnderflows ==
  [][ (pc = "add_frame_to_replay_data" /\ pc' = "next_frame") =>
        /\ FrameNumber >= Len(replay_data.ball_data.frames)
        /\ \A p \in DOMAIN player_to_actor_id :
             p \in DOMAIN replay_data.players =>
               FrameNumber >= Len(replay_data.players[p].frames)
    ]_vars

\* Three frames were added: the ball sequence was extended each time and a
\* player first seen after the first frame had its sequence padded.
C32_Witness ==
  /\ pc = "next_frame"
  /\ Len(replay_data.frame_metadata) >= 3
  /\ Len(replay_data.ball_data.frames) >= 3
  /\ \E p \in DOMAIN replay_data.players :
       /\ Len(replay_data.players[p].frames) >= 3
       /\ replay_data.players[p].frames[1] = PlayerFrame_Empty
       /\ replay_data.players[p].frames[2] = PlayerFrame_Empty
       /\ Last(replay_data.players[p].frames) # PlayerFrame_Empty


\* C33: the size selector of a Vector decode is below 20 when net_version
\* is below 7 and below 22 otherwise; the bias of a decoded Vector is
\* 2^(size_bits+1), positive and at most 2^22, and each axis lies in
\* [0, 2^(size_bits+2)): neither the shift nor the widening to i32
\* overflows or gives a negative axis.
C33_VectorWidths ==
  (checked # NotRun /\ checked.fn = "Vector" /\ IsSome(Selector.v)) =>
    /\ Unwrap(Selector.v) >= 0
    /\ checked.net_version < NewVectorVersion
         => Unwrap(Selector.v) < MaxSizeBitsOld
    /\ checked.net_version >= NewVectorVersion
         => Unwrap(Selector.v) < MaxSizeBitsNew
    /\ IsSome(checked.v) =>
         /\ Unwrap(checked.v).bias = 2 ^ (Unwrap(Selector.v) + 1)
         /\ Unwrap(checked.v).bias > 0
         /\ Unwrap(checked.v).bias <= 2 ^ MaxSizeBitsNew
         /\ \A axis \in {"dx", "dy", "dz"} :
              /\ Unwrap(checked.v)[axis] >= 0
              /\ Unwrap(checked.v)[axis] < 2 ^ (Unwrap(Selector.v) + 2)
              /\ Unwrap(checked.v)[axis] <= I32Max

\* The largest selector of version 7 was decoded with the largest axes.
C33_Witness ==
  /\ Succeeded
  /\ checked.fn = "Vector"
  /\ checked.net_version = NewVectorVersion
  /\ Unwrap(Selector.v) = MaxSizeBitsNew - 1
  /\ Unwrap(checked.v).bias = 2 ^ MaxSizeBitsNew
  /\ Unwrap(checked.v).dx = 2 ^ (MaxSizeBitsNew + 1) - 1


\* C34: below the version threshold the decoder of network/models.rs (a
\* selector of 4 bits and an optional extension bit, limit 20) and the
\* decoder of network.rs (read_bits_max(5, 20)) agree on every input: both
\* fail, or both return the same Vector after the same number of bits.
\* The bytes 06 08 D8 0D give the decoder of network.rs the bias 128 and the
\* axes 128, 128, 221.
C34_LegacyAgrees ==
  ( /\ checked # NotRun
    /\ checked.fn = "Vector"
    /\ checked.net_version < NewVectorVersion
    /\ legacy # NotRun ) =>
    /\ legacy.v = checked.v
    /\ IsSome(checked.v) => legacy.pos = checked.pos
    /\ input = bits_of(TestVectorBytes) => legacy.v = Some(TestVector)

\* Both decoders read a selector with the extension bit set and the axes
\* after it.
C34_Witness ==
  /\ Succeeded
  /\ checked.fn = "Vector"
  /\ checked.net_version < NewVectorVersion
  /\ legacy # NotRun
  /\ IsSome(legacy.v)
  /\ Unwrap(Selector.v) = LegacyMaxSizeBits - 1
  /\ Selector.bits.pos = LegacySelectorBits

=============================================================================
